---- MODULE Spec2Model ----
(***************************************************************************)
(* Model of the chuuni-voice playback daemon (src/chuuni_voice/daemon.py): *)
(* the accept loop, one connection-handler thread per connection, the      *)
(* admission checks of AudioDaemon._handle_play under _last_lock, the      *)
(* playback queue and the single worker thread.                            *)
(*                                                                         *)
(* Time is an integer clock (time.time() in whole seconds).  Probabilities *)
(* are integers k standing for k / ProbScale; a roll r in 0..ProbScale-1   *)
(* stands for a draw in [0, 1).  Dicts are functions whose domain is the   *)
(* set of keys present.  The unfinished-task counter of queue.Queue        *)
(* (task_done / join) is never read by the daemon and is left out.         *)
(* Two handler threads run concurrently; each serves one connection after  *)
(* the other.  next_id, played, evicted, hdrops and accepted record        *)
(* history and are read by no action.                                      *)
(*                                                                         *)
(* Spec is the whole daemon.  The other specifications are the same       *)
(* actions under classes of requests: SpecAdmission, plays without an      *)
(* audio path under every policy; SpecQueue, plays with an audio file      *)
(* under the policy that admits everything, with every way run() can end   *)
(* (SpecQueueFair adds that the accept loop is eventually left);           *)
(* SpecMixed, plays with and without a file; SpecStatus, status requests   *)
(* among plays with a file; SpecProtocol, everything a connection can      *)
(* deliver, well-formed or not.  SpecHost is the host around the daemon:   *)
(* clients that auto-start daemon processes, each process reduced to what  *)
(* run() does to the socket file and the PID file.  SpecUnlimited is       *)
(* SpecAdmission on daemons without a session limit; SpecEvents has plays  *)
(* of two events; SpecSlow adds connections that stay silent, with the     *)
(* fairness of the handler threads; SpecClient adds to SpecHost the client *)
(* commands (is_running, play, on-hook) around _send.                      *)
(* SpecLock has plays, status and session_reset requests contending for    *)
(* _last_lock; SpecWorkerFair is one handler against the worker, with the  *)
(* fairness of the worker thread and of the player's exit.                 *)
(*                                                                         *)
(* The library modules beside the daemon have their own state and their    *)
(* own specifications: SpecPlayer, the in-process queue of player.py with  *)
(* one caller of _enqueue_task against its worker; SpecFile, processes in  *)
(* _check_and_claim_cooldown on cooldown.json under the file lock;         *)
(* SpecHooks, inject_hooks and remove_hooks on the hooks of settings.json; *)
(* SpecOnHook, `chuuni on-hook` reading its payload and dispatching it.    *)
(***************************************************************************)
EXTENDS Integers, Sequences, FiniteSets, TLC

\* ---- bounds of the model ------------------------------------------------
MaxTime == 3
MaxCooldown == 2
MaxLimit == 2
MaxPlays == 3
MaxTasks == 10
ProbScale == 2

\* ---- program constants ---------------------------------------------------
QUEUE_MAX == 8

Events == {"coding", "bash_run"}
AudioPaths == {"", "a.mp3"}
Volumes == {8}
Handlers == {1, 2}
Outcomes == {"missing", "noplayer", "spawnfail", "spawned"}

\* processes on the host: the daemon modelled in full, other daemon
\* processes started from the same program, client invocations
Self == 1
Others == {2, 3}
Clients == {1, 2}

VARIABLES
    cooldown,            \* self._cooldown
    session_limits,      \* self._session_limits
    repeat_probability,  \* self._repeat_probability
    last_played,         \* self._last_played
    session_counts,      \* self._session_counts
    last_lock,           \* self._last_lock: 0 = free, else the holding handler
    queue,               \* self._queue
    running,             \* self._running
    mpc,                 \* position of run()
    clock,               \* time.time()
    hpc,                 \* position of each connection handler
    hmsg,                \* the request a handler is serving
    hnow,                \* local `now` of _handle_play
    hresp,               \* the response a handler returns
    hcounts,             \* local `counts` of the status branch of _dispatch
    wpc,                 \* position of the worker thread
    players,             \* number of live player child processes
    next_id,             \* tasks put on the queue so far
    played,              \* ids handed to _play_audio, in order
    evicted,             \* ids removed by the drop-oldest loop
    hdrops,              \* tasks a handler has removed for its current enqueue
    sock_owner,          \* the process whose socket SOCKET_PATH names, 0 = no file
    pid_owner,           \* the process that wrote PID_FILE, 0 = no file
    dpc,                 \* position of run() in each other daemon process
    cpc,                 \* position of each client in _ensure_daemon_running
    accepted,            \* history: plays accepted per event since the start
                         \* or the last session_reset
    cli,                 \* each client's command: position, the value _send
                         \* returned, what it printed and played, exit status
    pq,                  \* player.py: _play_queue, the position of the caller
                         \* in _enqueue_task and of _queue_worker, and history
    st,                  \* hooks/claude_code.py: the "hooks" key of
                         \* settings.json, the path of the chuuni binary, and
                         \* the hooks before the commands run so far
    hk,                  \* cli.py on-hook: the hook context, what stdin
                         \* holds, the parsed payload and the event chosen
    fc                   \* player.py: cooldown.json, the holder of
                         \* cooldown.lock, wall-clock time, each process's call
                         \* of _check_and_claim_cooldown, the finished calls

fsvars == <<sock_owner, pid_owner>>
\* the state of the library modules beside the daemon
libvars == <<pq, fc, st, hk>>
procvars == <<dpc, cpc, cli, libvars>>
cfgvars == <<cooldown, session_limits, repeat_probability>>
admvars == <<last_played, session_counts, accepted>>
hvars == <<hpc, hmsg, hnow, hresp, hcounts>>
wvars == <<wpc, players, played>>
\* the daemon, its hosts and its clients: all but the library modules
progvars == <<cooldown, session_limits, repeat_probability, last_played,
              session_counts, last_lock, queue, running, mpc, clock, hpc,
              hmsg, hnow, hresp, hcounts, wpc, players, next_id, played,
              evicted, hdrops, sock_owner, pid_owner, dpc, cpc, accepted,
              cli>>
vars == <<cooldown, session_limits, repeat_probability, last_played,
          session_counts, last_lock, queue, running, mpc, clock, hpc, hmsg,
          hnow, hresp, hcounts, wpc, players, next_id, played,
          evicted, hdrops, sock_owner, pid_owner, dpc, cpc, accepted, cli,
          libvars>>

\* ---- dict helpers ---------------------------------------------------------
EmptyDict == [k \in {} |-> 0]

Get(d, k, default) == IF k \in DOMAIN d THEN d[k] ELSE default

Put(d, k, v) == [x \in (DOMAIN d) \cup {k} |-> IF x = k THEN v ELSE d[x]]

Dicts(keys, vals) == UNION {[D -> vals] : D \in SUBSET keys}

\* ---- messages and responses ----------------------------------------------
\* What a connection delivers is a record: json says what json.loads makes
\* of the bytes ("empty": nothing but whitespace, "invalid": not JSON,
\* "value": JSON that is not an object, "object": a JSON object whose keys
\* are the other fields), newline whether a "\n" ended the bytes.
PlayMsgs == [type : {"play"}, event : Events, audio_path : AudioPaths,
             volume : Volumes, json : {"object"}, newline : {TRUE}]

CtlMsg(t) == [type |-> t, event |-> "", audio_path |-> "", volume |-> 0,
              json |-> "object", newline |-> TRUE]

CtlMsgs == {CtlMsg("status"), CtlMsg("session_reset"), CtlMsg("stop")}

Msgs == PlayMsgs \cup CtlMsgs

NoMsg == CtlMsg("none")

\* a "volume" that float() does not convert ("loud", null, a list)
NotANumber == -1

BadVolumeMsgs == {[m EXCEPT !.volume = NotANumber] : m \in PlayMsgs}

\* msg.get("type") when the object has no "type" key
NoType == "<absent>"

UnknownTypes == {"bogus", NoType}

UnknownMsgs == {CtlMsg(t) : t \in UnknownTypes}

Data(j) == [CtlMsg("") EXCEPT !.json = j]

Unterminated(m) == [m EXCEPT !.newline = FALSE]

Terminated(m) == [m EXCEPT !.newline = TRUE]

\* everything a connection can deliver, with and without the final newline
WireMsgs ==
    LET whole == Msgs \cup BadVolumeMsgs \cup UnknownMsgs
                      \cup {Data(j) : j \in {"empty", "invalid", "value"}}
    IN  whole \cup {Unterminated(m) : m \in whole}

Resp(ok, reason, count, limit) ==
    [ok |-> ok, reason |-> reason, count |-> count, limit |-> limit,
     queue_size |-> -1, session_counts |-> EmptyDict,
     session_limits |-> EmptyDict]

RespOk == Resp(TRUE, "", -1, -1)

NoResp == Resp(FALSE, "none", -1, -1)

\* f"unknown type: {msg_type!r}": repr() of a str is the str in single
\* quotes, repr() of None is None
ReprPlain(t) == IF t = NoType THEN "None" ELSE t

Repr(t) == IF t = NoType THEN "None" ELSE "'" \o t \o "'"

UnknownResp(t) == Resp(FALSE, "unknown type: " \o Repr(t), -1, -1)

BadJsonResp == Resp(FALSE, "bad JSON", -1, -1)

StatusResp(qsize, counts, limits) ==
    [ok |-> TRUE, reason |-> "", count |-> -1, limit |-> -1,
     queue_size |-> qsize, session_counts |-> counts,
     session_limits |-> limits]

\* ---- construction ---------------------------------------------------------
ClampProbability(p) == IF p < 0 THEN 0 ELSE IF p > ProbScale THEN ProbScale ELSE p

\* ---- client side -----------------------------------------------------------
\* Python's None as the value of _send, and an exception leaving _send
PyNone == Resp(FALSE, "<None>", -1, -1)

Raised == Resp(FALSE, "<exception>", -1, -1)

\* a client that runs no command
CliOff == [pc |-> "off", cmd |-> "none", via |-> "none", resp |-> PyNone,
           up |-> FALSE, line |-> FALSE, audio |-> FALSE, status |-> "",
           admitted |-> FALSE]

\* player.py at import: an empty queue, the worker waiting in get()
PlayerIdle == [queue |-> <<>>, epc |-> "idle", wpc |-> "get", next |-> 0,
               dropped |-> {}, played |-> <<>>]

\* the processes that run the non-daemon path
Procs == {1, 2}

\* time.time(): seconds since 1970, far above every cooldown
Epoch == 100

\* a call of _check_and_claim_cooldown that has not begun
NoCall == [pc |-> "off", event |-> "", data |-> EmptyDict, now |-> 0]

\* no cooldown.json yet, nobody in _check_and_claim_cooldown
FileIdle(cd, readable) ==
    [file |-> [readable |-> readable, data |-> EmptyDict], lock |-> 0,
     clock |-> Epoch, cooldown |-> cd, call |-> [p \in Procs |-> NoCall],
     calls |-> <<>>]

\* a settings.json with the given content under "hooks" (haskey: the key is
\* present), before any chuuni hook command
SettingsFile(bin, haskey, hooks) ==
    [bin |-> bin, haskey |-> haskey, hooks |-> hooks, orig |-> hooks,
     ops |-> <<>>]

\* a key of the payload: absent, or present with a value
Absent == [present |-> FALSE, v |-> 0]
Present(v) == [present |-> TRUE, v |-> v]

\* the payload {}: json.loads is skipped for blank input and its error caught
EmptyPayload ==
    [nested_exit |-> Absent, flat_exit |-> Absent,
     nested_output |-> <<>>, flat_output |-> <<>>]

\* `chuuni on-hook CTX` started with stdin holding the payload (raw: whether
\* it is a JSON object, blank, or not JSON)
HookStart(ctx, raw, payload) ==
    [pc |-> "read", ctx |-> ctx, raw |-> raw, stdin |-> payload,
     data |-> EmptyPayload, event |-> "none"]

\* the library modules not in use: player.py not imported, nobody holds
\* cooldown.lock, no hook command has edited settings.json, no on-hook
\* command runs
PlayerUnused == [epc |-> "off"]
FileUnused == [lock |-> 0]
SettingsUnused == [ops |-> <<>>]
HookOff == [pc |-> "off"]

InitLib ==
    /\ pq = PlayerUnused
    /\ fc = FileUnused
    /\ st = SettingsUnused
    /\ hk = HookOff

InitProg(cds, lims, probs) ==
    /\ cooldown \in cds
    /\ session_limits \in lims
    /\ \E p \in probs : repeat_probability = ClampProbability(p)
    /\ last_played = EmptyDict
    /\ session_counts = EmptyDict
    /\ last_lock = 0
    /\ queue = <<>>
    /\ running = FALSE
    /\ mpc = "new"
    /\ clock = 0
    /\ hpc = [h \in Handlers |-> "idle"]
    /\ hmsg = [h \in Handlers |-> NoMsg]
    /\ hnow = [h \in Handlers |-> 0]
    /\ hresp = [h \in Handlers |-> NoResp]
    /\ hcounts = [h \in Handlers |-> EmptyDict]
    /\ wpc = "unstarted"
    /\ players = 0
    /\ next_id = 0
    /\ played = <<>>
    /\ evicted = {}
    /\ hdrops = [h \in Handlers |-> 0]
    /\ sock_owner = 0
    /\ pid_owner = 0
    /\ dpc = [d \in Others |-> "off"]
    /\ cpc = [c \in Clients |-> "off"]
    /\ accepted = EmptyDict
    /\ cli = [c \in Clients |-> CliOff]

InitState(cds, lims, probs) == InitLib /\ InitProg(cds, lims, probs)

InitAll == InitState(0..MaxCooldown, Dicts(Events, 0..MaxLimit), 0..ProbScale)

\* ---- run(): startup and accept loop --------------------------------------
\* mkdir, unlink stale socket, write PID file, start the worker, set _running,
\* bind and listen
RunStart ==
    /\ mpc = "new"
    /\ mpc' = "serving"
    /\ wpc' = "get"
    /\ running' = TRUE
    /\ sock_owner' = Self
    /\ pid_owner' = Self
    /\ UNCHANGED <<procvars, cfgvars, admvars, last_lock, queue, clock, hvars,
                   players, next_id, played, evicted, hdrops>>

\* Startup ends in an exception outside the try block of run(), after the
\* stale socket was unlinked and the PID file written: self._worker.start()
\* raises (the worker is not running, _running is still False), or
\* socket.socket() raises (the worker runs, _running is True).  No finally
\* clause covers these statements.
RunRaisesUnguarded(at) ==
    /\ mpc = "new"
    /\ mpc' = "raised"
    /\ sock_owner' = 0
    /\ pid_owner' = Self
    /\ IF at = "worker"
       THEN UNCHANGED <<wpc, running>>
       ELSE wpc' = "get" /\ running' = TRUE
    /\ UNCHANGED <<procvars, cfgvars, admvars, last_lock, queue, clock, hvars,
                   players, next_id, played, evicted, hdrops>>

\* _cleanup: unlink(missing_ok=True) of SOCKET_PATH and PID_FILE, whoever
\* made them
Unlinked(owner) == 0

\* bind() or listen() raises inside the try block: finally runs _cleanup
RunRaisesGuarded ==
    /\ mpc = "new"
    /\ mpc' = "raised"
    /\ wpc' = "get"
    /\ running' = TRUE
    /\ sock_owner' = Unlinked(0)
    /\ pid_owner' = Unlinked(Self)
    /\ UNCHANGED <<procvars, cfgvars, admvars, last_lock, queue, clock, hvars,
                   players, next_id, played, evicted, hdrops>>

\* the accept loop tests the flag after every accept and every 1 s timeout
LeavesLoopWhenDrained(flag, q, n) == ~flag /\ q = <<>> /\ n = 0

LeavesLoop(flag, q, n) == ~flag

\* `while self._running` is left; finally runs _cleanup
RunExit ==
    /\ mpc = "serving"
    /\ LeavesLoop(running, queue, players)
    /\ mpc' = "exited"
    /\ sock_owner' = Unlinked(sock_owner)
    /\ pid_owner' = Unlinked(pid_owner)
    /\ UNCHANGED <<procvars, cfgvars, admvars, last_lock, queue, running, clock,
                   hvars, wvars, next_id, evicted, hdrops>>

\* accept() raises OSError: break; finally runs _cleanup
AcceptRaises ==
    /\ mpc = "serving"
    /\ running
    /\ mpc' = "exited"
    /\ sock_owner' = Unlinked(sock_owner)
    /\ pid_owner' = Unlinked(pid_owner)
    /\ UNCHANGED <<procvars, cfgvars, admvars, last_lock, queue, running, clock,
                   hvars, wvars, next_id, evicted, hdrops>>

\* SIGTERM or SIGINT: _handle_signal clears the flag
Signal ==
    /\ mpc = "serving"
    /\ running
    /\ running' = FALSE
    /\ UNCHANGED <<fsvars, procvars, cfgvars, admvars, last_lock, queue, mpc,
                   clock, hvars, wvars, next_id, evicted, hdrops>>

Tick ==
    /\ clock < MaxTime
    /\ clock' = clock + 1
    /\ UNCHANGED <<fsvars, procvars, cfgvars, admvars, last_lock, queue, running, mpc, hvars,
                   wvars, next_id, evicted, hdrops>>

\* The counters the code leaves unbounded are capped where a request is
\* taken: bookkeeping-only plays by the session count, plays with a file by
\* the number of tasks ever queued.
Capped(m) ==
    IF m.audio_path = ""
    THEN Get(session_counts, m.event, 0) < MaxPlays
    ELSE next_id < MaxTasks

\* ---- _handle_conn / _dispatch: one request per connection ----------------
\* The branch the received data takes.  The recv loop ends on a newline, on
\* end of stream or on the timeout, and what was read is handled the same
\* way in all three cases.
RouteBody(m) ==
    IF m.json = "empty" THEN "silent"
    ELSE IF m.json = "invalid" THEN "bad_json"
    ELSE IF m.json = "value" THEN "raise"
    ELSE IF m.type = "play"
         THEN IF m.volume = NotANumber THEN "raise" ELSE "play"
    ELSE IF m.type \in {"status", "session_reset"} THEN "locked"
    ELSE IF m.type = "stop" THEN "stop"
    ELSE "unknown"

RouteNewlineOnly(m) == IF m.newline THEN RouteBody(m) ELSE "silent"

Route(m) == RouteBody(m)

\* where the handler stands once the data is routed
EntryPc(route) ==
    IF route \in {"play", "locked"} THEN "acquire"
    ELSE IF route \in {"silent", "raise"} THEN "closing"
    ELSE "respond"

\* server.accept() hands the connection to a new thread, which reads one
\* newline-terminated JSON object and routes it.  type "play": _handle_play
\* reads the fields and the clock, then waits for _last_lock.
\* conn, _ = server.accept(); threading.Thread(target=self._handle_conn,
\* args=(conn,)).start(): a connection gets a handler of its own whatever
\* the other handlers are doing
CanAcceptWhenAllIdle(pcs, h) == \A k \in Handlers : pcs[k] = "idle"

CanAccept(pcs, h) == pcs[h] = "idle"

\* a client connects and sends nothing yet: its handler waits in conn.recv
AcceptSlow(h) ==
    /\ mpc = "serving" /\ running
    /\ CanAccept(hpc, h)
    /\ hpc' = [hpc EXCEPT ![h] = "recv"]
    /\ UNCHANGED <<fsvars, procvars, cfgvars, admvars, last_lock, queue, running, mpc, clock,
                   hmsg, hnow, hresp, hcounts, wvars, next_id, evicted, hdrops>>

\* socket.timeout or end of stream with no data: `if not data.strip(): return`
RecvTimeout(h) ==
    /\ hpc[h] = "recv"
    /\ hpc' = [hpc EXCEPT ![h] = "closing"]
    /\ UNCHANGED <<fsvars, procvars, cfgvars, admvars, last_lock, queue, running, mpc, clock,
                   hmsg, hnow, hresp, hcounts, wvars, next_id, evicted, hdrops>>

\* the slow client's play request is complete at last
SlowCompletes(h, m) ==
    /\ hpc[h] = "recv"
    /\ Route(m) = "play"
    /\ Capped(m)
    /\ hmsg' = [hmsg EXCEPT ![h] = m]
    /\ hnow' = [hnow EXCEPT ![h] = clock]
    /\ hpc' = [hpc EXCEPT ![h] = "acquire"]
    /\ UNCHANGED <<fsvars, procvars, cfgvars, admvars, last_lock, queue, running, mpc, clock,
                   hresp, hcounts, wvars, next_id, evicted, hdrops>>

RecvPlay(h, m) ==
    /\ mpc = "serving" /\ running
    /\ CanAccept(hpc, h)
    /\ Route(m) = "play"
    /\ Capped(m)
    /\ hmsg' = [hmsg EXCEPT ![h] = m]
    /\ hnow' = [hnow EXCEPT ![h] = clock]
    /\ hpc' = [hpc EXCEPT ![h] = "acquire"]
    /\ UNCHANGED <<fsvars, procvars, cfgvars, admvars, last_lock, queue, running, mpc, clock,
                   hresp, hcounts, wvars, next_id, evicted, hdrops>>

\* type "status" and "session_reset" both start with `with self._last_lock`
RecvLocked(h, m) ==
    /\ mpc = "serving" /\ running
    /\ CanAccept(hpc, h)
    /\ Route(m) = "locked"
    /\ hmsg' = [hmsg EXCEPT ![h] = m]
    /\ hpc' = [hpc EXCEPT ![h] = "acquire"]
    /\ UNCHANGED <<fsvars, procvars, cfgvars, admvars, last_lock, queue, running, mpc, clock,
                   hnow, hresp, hcounts, wvars, next_id, evicted, hdrops>>

RecvStop(h) ==
    /\ mpc = "serving" /\ running
    /\ CanAccept(hpc, h)
    /\ running' = FALSE
    /\ hresp' = [hresp EXCEPT ![h] = RespOk]
    /\ hmsg' = [hmsg EXCEPT ![h] = CtlMsg("stop")]
    /\ hpc' = [hpc EXCEPT ![h] = "respond"]
    /\ UNCHANGED <<fsvars, procvars, cfgvars, admvars, last_lock, queue, mpc, clock, hnow,
                   hcounts, wvars, next_id, evicted, hdrops>>

\* `if not data.strip(): return`: nothing is sent back
RecvSilent(h, m) ==
    /\ mpc = "serving" /\ running
    /\ CanAccept(hpc, h)
    /\ Route(m) = "silent"
    /\ hmsg' = [hmsg EXCEPT ![h] = m]
    /\ hpc' = [hpc EXCEPT ![h] = EntryPc("silent")]
    /\ UNCHANGED <<fsvars, procvars, cfgvars, admvars, last_lock, queue, running, mpc, clock,
                   hnow, hresp, hcounts, wvars, next_id, evicted, hdrops>>

\* json.loads raises: {"ok": False, "reason": "bad JSON"}
RecvBadJson(h, m) ==
    /\ mpc = "serving" /\ running
    /\ CanAccept(hpc, h)
    /\ Route(m) = "bad_json"
    /\ hmsg' = [hmsg EXCEPT ![h] = m]
    /\ hresp' = [hresp EXCEPT ![h] = BadJsonResp]
    /\ hpc' = [hpc EXCEPT ![h] = EntryPc("bad_json")]
    /\ UNCHANGED <<fsvars, procvars, cfgvars, admvars, last_lock, queue, running, mpc, clock,
                   hnow, hcounts, wvars, next_id, evicted, hdrops>>

\* msg.get on a value that is not a dict, or float() on the volume, raises
\* inside _dispatch; `except Exception` of _handle_conn logs it and the
\* connection closes with nothing sent
RecvRaises(h, m) ==
    /\ mpc = "serving" /\ running
    /\ CanAccept(hpc, h)
    /\ Route(m) = "raise"
    /\ hmsg' = [hmsg EXCEPT ![h] = m]
    /\ hpc' = [hpc EXCEPT ![h] = EntryPc("raise")]
    /\ UNCHANGED <<fsvars, procvars, cfgvars, admvars, last_lock, queue, running, mpc, clock,
                   hnow, hresp, hcounts, wvars, next_id, evicted, hdrops>>

\* the last line of _dispatch
RecvUnknown(h, m) ==
    /\ mpc = "serving" /\ running
    /\ CanAccept(hpc, h)
    /\ Route(m) = "unknown"
    /\ hmsg' = [hmsg EXCEPT ![h] = m]
    /\ hresp' = [hresp EXCEPT ![h] = UnknownResp(m.type)]
    /\ hpc' = [hpc EXCEPT ![h] = EntryPc("unknown")]
    /\ UNCHANGED <<fsvars, procvars, cfgvars, admvars, last_lock, queue, running, mpc, clock,
                   hnow, hcounts, wvars, next_id, evicted, hdrops>>

\* `with conn` is left without a sendall
Close(h) ==
    /\ hpc[h] = "closing"
    /\ hpc' = [hpc EXCEPT ![h] = "idle"]
    /\ hmsg' = [hmsg EXCEPT ![h] = NoMsg]
    /\ UNCHANGED <<fsvars, procvars, cfgvars, admvars, last_lock, queue, running, mpc, clock,
                   hnow, hresp, hcounts, wvars, next_id, evicted, hdrops>>

Acquire(h) ==
    /\ hpc[h] = "acquire"
    /\ last_lock = 0
    /\ last_lock' = h
    /\ hpc' = [hpc EXCEPT ![h] = "locked"]
    /\ UNCHANGED <<fsvars, procvars, cfgvars, admvars, queue, running, mpc, clock, hmsg, hnow,
                   hresp, hcounts, wvars, next_id, evicted, hdrops>>

\* counts = dict(self._session_counts)
StatusCopy(h) ==
    /\ hpc[h] = "locked"
    /\ hmsg[h].type = "status"
    /\ hcounts' = [hcounts EXCEPT ![h] = session_counts]
    /\ last_lock' = 0
    /\ hpc' = [hpc EXCEPT ![h] = "status_qsize"]
    /\ UNCHANGED <<fsvars, procvars, cfgvars, admvars, queue, running, mpc, clock, hmsg, hnow,
                   hresp, wvars, next_id, evicted, hdrops>>

\* `counts` is a copy made under the lock, not the live dict
SnapshotCountsLive(copy, live) == live

SnapshotCounts(copy, live) == copy

\* "queue_size": self._queue.qsize(), read after the lock is released
StatusReturn(h) ==
    /\ hpc[h] = "status_qsize"
    /\ hresp' = [hresp EXCEPT ![h] =
                   StatusResp(Len(queue),
                              SnapshotCounts(hcounts[h], session_counts),
                              session_limits)]
    /\ hcounts' = [hcounts EXCEPT ![h] = EmptyDict]
    /\ hpc' = [hpc EXCEPT ![h] = "respond"]
    /\ UNCHANGED <<fsvars, procvars, cfgvars, admvars, last_lock, queue, running, mpc, clock,
                   hmsg, hnow, wvars, next_id, evicted, hdrops>>

\* self._session_counts.clear(); _last_played is not touched
ResetCounts(counts) == EmptyDict

ResetLastPlayedCleared(lp) == EmptyDict

ResetLastPlayed(lp) == lp

SessionReset(h) ==
    /\ hpc[h] = "locked"
    /\ hmsg[h].type = "session_reset"
    /\ session_counts' = ResetCounts(session_counts)
    /\ last_played' = ResetLastPlayed(last_played)
    /\ accepted' = EmptyDict
    /\ last_lock' = 0
    /\ hresp' = [hresp EXCEPT ![h] = RespOk]
    /\ hpc' = [hpc EXCEPT ![h] = "respond"]
    /\ UNCHANGED <<fsvars, procvars, cfgvars, queue, running, mpc, clock, hmsg, hnow, hcounts, wvars,
                   next_id, evicted, hdrops>>

\* ---- _handle_play: the admission checks under _last_lock ----------------
SessionLimitOffByOne(limit, count) == limit > 0 /\ count > limit

SessionLimitReached(limit, count) == limit > 0 /\ count >= limit

ProbabilitySkipFirstToo(count, roll, p) == roll >= p

ProbabilitySkip(count, roll, p) == count > 0 /\ roll >= p

InCooldownInclusive(now, last, cd) == now - last <= cd

InCooldown(now, last, cd) == now - last < cd

AdmissionCooldownFirst(count, limit, roll, p, now, last, cd) ==
    IF SessionLimitReached(limit, count) THEN "session_limit"
    ELSE IF InCooldown(now, last, cd) THEN "cooldown"
    ELSE IF ProbabilitySkip(count, roll, p) THEN "skipped"
    ELSE "ok"

Admission(count, limit, roll, p, now, last, cd) ==
    IF SessionLimitReached(limit, count) THEN "session_limit"
    ELSE IF ProbabilitySkip(count, roll, p) THEN "skipped"
    ELSE IF InCooldown(now, last, cd) THEN "cooldown"
    ELSE "ok"

PlayResp(reason, count, limit) ==
    IF reason = "session_limit" THEN Resp(FALSE, reason, count, limit)
    ELSE IF reason = "ok" THEN RespOk
    ELSE Resp(FALSE, reason, -1, -1)

ClaimLastPlayedOnCooldown(reason, lp, e, now) ==
    IF reason \in {"ok", "cooldown"} THEN Put(lp, e, now) ELSE lp

ClaimLastPlayed(reason, lp, e, now) ==
    IF reason = "ok" THEN Put(lp, e, now) ELSE lp

ClaimCountAnyVerdict(reason, counts, e, count) == Put(counts, e, count + 1)

ClaimCount(reason, counts, e, count) ==
    IF reason = "ok" THEN Put(counts, e, count + 1) ELSE counts

\* self._roll(): random.random() draws from [0, 1), never 1
RollsClosed == 0..ProbScale

Rolls == 0..(ProbScale - 1)

\* `if audio_path:` after the claim
EnqueuesAlways(reason, path) == reason = "ok"

Enqueues(reason, path) == reason = "ok" /\ path # ""

\* limit = self._session_limits.get(event, 0)
LimitOfDefaultOne(limits, e) == Get(limits, e, 1)

LimitOf(limits, e) == Get(limits, e, 0)

\* last = self._last_played.get(event, 0.0)
LastPlayedAtNever(lp, e) == 0

LastPlayedAt(lp, e) == Get(lp, e, 0)

\* the checks read the entries of the request's own event only
VerdictAcrossEvents(h, roll) ==
    Admission(Get(session_counts, hmsg[h].event, 0),
              LimitOf(session_limits, hmsg[h].event), roll, repeat_probability,
              hnow[h],
              CHOOSE t \in {LastPlayedAt(last_played, f) : f \in Events} :
                  \A u \in {LastPlayedAt(last_played, f) : f \in Events} : u <= t,
              cooldown)

\* the outcome of the checks for handler h when the draw is roll
Verdict(h, roll) ==
    Admission(Get(session_counts, hmsg[h].event, 0),
              LimitOf(session_limits, hmsg[h].event), roll, repeat_probability,
              hnow[h], LastPlayedAt(last_played, hmsg[h].event), cooldown)

\* every `return` of _handle_play inside `with self._last_lock` leaves the
\* block, which releases the lock
ReleasedUnlessRejected(h, reason) == IF reason = "ok" THEN 0 ELSE h

Released(h, reason) == 0

EvaluatePlay(h) ==
    /\ hpc[h] = "locked"
    /\ hmsg[h].type = "play"
    /\ \E roll \in Rolls :
         LET e == hmsg[h].event
             count == Get(session_counts, e, 0)
             limit == LimitOf(session_limits, e)
             reason == Verdict(h, roll)
         IN  /\ last_played' = ClaimLastPlayed(reason, last_played, e, hnow[h])
             /\ session_counts' = ClaimCount(reason, session_counts, e, count)
             /\ accepted' = IF reason = "ok"
                            THEN Put(accepted, e, Get(accepted, e, 0) + 1)
                            ELSE accepted
             /\ IF Enqueues(reason, hmsg[h].audio_path)
                THEN /\ hpc' = [hpc EXCEPT ![h] = "qsize"]
                     /\ UNCHANGED hresp
                ELSE /\ hpc' = [hpc EXCEPT ![h] = "respond"]
                     /\ hresp' = [hresp EXCEPT ![h] = PlayResp(reason, count, limit)]
             /\ last_lock' = Released(h, reason)
    /\ hnow' = [hnow EXCEPT ![h] = 0]
    /\ UNCHANGED <<fsvars, procvars, cfgvars, queue, running, mpc, clock, hmsg, hcounts, wvars,
                   next_id, evicted, hdrops>>

\* ---- _handle_play: enqueue, outside the lock -----------------------------
QueueFull(q) == Len(q) >= QUEUE_MAX

\* while self._queue.qsize() >= _QUEUE_MAX
QSize(h) ==
    /\ hpc[h] = "qsize"
    /\ hpc' = [hpc EXCEPT ![h] = IF QueueFull(queue) THEN "get_nowait" ELSE "put_nowait"]
    /\ UNCHANGED <<fsvars, procvars, cfgvars, admvars, last_lock, queue, running, mpc, clock,
                   hmsg, hnow, hresp, hcounts, wvars, next_id, evicted, hdrops>>

\* queue.Queue is FIFO: get() and get_nowait() take the item put first;
\* the result is <<item, rest of the queue>>
LifoPop(q) == <<q[Len(q)], SubSeq(q, 1, Len(q) - 1)>>

QueuePop(q) == <<Head(q), Tail(q)>>

\* self._queue.get_nowait(); queue.Empty leaves the loop
GetNowait(h) ==
    /\ hpc[h] = "get_nowait"
    /\ IF queue # <<>>
       THEN /\ evicted' = evicted \cup {QueuePop(queue)[1].id}
            /\ queue' = QueuePop(queue)[2]
            /\ hdrops' = [hdrops EXCEPT ![h] = @ + 1]
            /\ hpc' = [hpc EXCEPT ![h] = "qsize"]
       ELSE /\ hpc' = [hpc EXCEPT ![h] = "put_nowait"]
            /\ UNCHANGED <<queue, evicted, hdrops>>
    /\ UNCHANGED <<fsvars, procvars, cfgvars, admvars, last_lock, running, mpc, clock, hmsg,
                   hnow, hresp, hcounts, wvars, next_id>>

Task(id, m) == [id |-> id, audio_path |-> m.audio_path, volume |-> m.volume]

\* self._queue.put_nowait((audio_path, volume)); return {"ok": True}
PutNowait(h) ==
    /\ hpc[h] = "put_nowait"
    /\ next_id' = next_id + 1
    /\ queue' = Append(queue, Task(next_id + 1, hmsg[h]))
    /\ hresp' = [hresp EXCEPT ![h] = RespOk]
    /\ hpc' = [hpc EXCEPT ![h] = "respond"]
    /\ UNCHANGED <<fsvars, procvars, cfgvars, admvars, last_lock, running, mpc, clock, hmsg,
                   hnow, hcounts, wvars, evicted, hdrops>>

\* conn.sendall(response); the connection closes, the thread ends
Respond(h) ==
    /\ hpc[h] = "respond"
    /\ hpc' = [hpc EXCEPT ![h] = "idle"]
    /\ hresp' = [hresp EXCEPT ![h] = NoResp]
    /\ hmsg' = [hmsg EXCEPT ![h] = NoMsg]
    /\ hdrops' = [hdrops EXCEPT ![h] = 0]
    /\ UNCHANGED <<fsvars, procvars, cfgvars, admvars, last_lock, queue, running, mpc, clock,
                   hnow, hcounts, wvars, next_id, evicted>>

\* ---- _worker_loop and _play_audio ----------------------------------------
\* _play_audio returns early for a missing file or a missing player and
\* wraps the rest in `except Exception`; _worker_loop wraps the call in
\* `except Exception` again
CaughtUnlessSpawn(outcome) == outcome # "spawnfail"

Caught(outcome) == TRUE

AfterPopenNoWait(outcome) == "logged"

AfterPopen(outcome) ==
    IF outcome = "spawned" THEN "wait"
    ELSE IF Caught(outcome) THEN "logged"
    ELSE "dead"

\* path, volume = self._queue.get(); _play_audio(path, volume): the file is
\* missing, no player command exists, Popen raises, or a child is spawned
\* and the worker blocks in proc.wait()
WorkerPlay(outcome) ==
    /\ wpc = "get"
    /\ queue # <<>>
    /\ queue' = QueuePop(queue)[2]
    /\ played' = Append(played, QueuePop(queue)[1].id)
    /\ players' = IF outcome = "spawned" THEN players + 1 ELSE players
    /\ wpc' = AfterPopen(outcome)
    /\ UNCHANGED <<fsvars, procvars, cfgvars, admvars, last_lock, running, mpc, clock, hvars,
                   next_id, evicted, hdrops>>

\* the failure is logged; task_done(); the loop goes on
\* `while True:` the worker goes back to self._queue.get() after every task
LoopsBackUnlessPlayed(pc) == IF pc = "wait" THEN "done" ELSE "get"

LoopsBack(pc) == "get"

WorkerResume ==
    /\ wpc = "logged"
    /\ wpc' = LoopsBack(wpc)
    /\ UNCHANGED <<fsvars, procvars, cfgvars, admvars, last_lock, queue, running,
                   mpc, clock, hvars, players, played, next_id, evicted, hdrops>>

\* the child exits; proc.wait() returns, task_done()
PlayerExit ==
    /\ wpc = "wait"
    /\ players > 0
    /\ players' = players - 1
    /\ wpc' = LoopsBack(wpc)
    /\ UNCHANGED <<fsvars, procvars, cfgvars, admvars, last_lock, queue, running, mpc, clock,
                   hvars, played, next_id, evicted, hdrops>>

\* ---- specifications -------------------------------------------------------
Init == InitAll

Next ==
    \/ RunStart
    \/ \E at \in {"worker", "socket"} : RunRaisesUnguarded(at)
    \/ RunRaisesGuarded
    \/ RunExit
    \/ AcceptRaises
    \/ Signal
    \/ Tick
    \/ \E h \in Handlers, m \in PlayMsgs : RecvPlay(h, m)
    \/ \E h \in Handlers, m \in CtlMsgs \ {CtlMsg("stop")} : RecvLocked(h, m)
    \/ \E h \in Handlers : RecvStop(h)
    \/ \E h \in Handlers, m \in WireMsgs : RecvSilent(h, m)
    \/ \E h \in Handlers, m \in WireMsgs : RecvBadJson(h, m)
    \/ \E h \in Handlers, m \in WireMsgs : RecvRaises(h, m)
    \/ \E h \in Handlers, m \in WireMsgs : RecvUnknown(h, m)
    \/ \E h \in Handlers : Close(h)
    \/ \E h \in Handlers : Acquire(h)
    \/ \E h \in Handlers : StatusCopy(h)
    \/ \E h \in Handlers : StatusReturn(h)
    \/ \E h \in Handlers : SessionReset(h)
    \/ \E h \in Handlers : EvaluatePlay(h)
    \/ \E h \in Handlers : QSize(h)
    \/ \E h \in Handlers : GetNowait(h)
    \/ \E h \in Handlers : PutNowait(h)
    \/ \E h \in Handlers : Respond(h)
    \/ \E o \in Outcomes : WorkerPlay(o)
    \/ WorkerResume
    \/ PlayerExit

Spec == Init /\ [][Next]_vars

\* Requests for one event that carry no audio path (bookkeeping only, as the
\* unit tests of _handle_play send them), under every policy configuration
\* for that event: nothing is ever queued, so the enqueue steps and the
\* worker never run.
BookkeepingMsgs == {m \in PlayMsgs : m.audio_path = "" /\ m.event = "coding"}

InitAdmission ==
    InitState(0..MaxCooldown, Dicts({"coding"}, 0..MaxLimit), 0..ProbScale)

NextAdmission ==
    \/ RunStart
    \/ RunExit
    \/ Tick
    \/ \E h \in Handlers, m \in BookkeepingMsgs : RecvPlay(h, m)
    \/ \E h \in Handlers, m \in CtlMsgs \ {CtlMsg("stop")} : RecvLocked(h, m)
    \/ \E h \in Handlers : RecvStop(h)
    \/ \E h \in Handlers : Acquire(h)
    \/ \E h \in Handlers : StatusCopy(h)
    \/ \E h \in Handlers : StatusReturn(h)
    \/ \E h \in Handlers : SessionReset(h)
    \/ \E h \in Handlers : EvaluatePlay(h)
    \/ \E h \in Handlers : Respond(h)

SpecAdmission == InitAdmission /\ [][NextAdmission]_vars

\* The same requests on daemons without a session limit (no entry, or an
\* entry of 0), where the count runs up to the bound.
InitUnlimited ==
    InitState(0..MaxCooldown, {EmptyDict, [e \in {"coding"} |-> 0]},
              {0, ProbScale})

SpecUnlimited == InitUnlimited /\ [][NextAdmission]_vars

\* Two events: bookkeeping play requests for both, one handler each way.
\* get_cooldowns(cfg) of the daemon's entry point yields one duration per
\* event; the constructor it feeds has the single parameter `cooldown`.
EventCooldowns == [e \in Events |-> IF e = "coding" THEN 1 ELSE 2]

EventMsgs == {m \in PlayMsgs : m.audio_path = ""}

InitEvents ==
    InitState({EventCooldowns[e] : e \in Events}, Dicts(Events, {1}),
              {0, ProbScale})

NextEvents ==
    \/ RunStart
    \/ RunExit
    \/ Tick
    \/ \E h \in Handlers, m \in EventMsgs : RecvPlay(h, m)
    \/ \E h \in Handlers : RecvStop(h)
    \/ \E h \in Handlers : Acquire(h)
    \/ \E h \in Handlers : EvaluatePlay(h)
    \/ \E h \in Handlers : Respond(h)

SpecEvents == InitEvents /\ [][NextEvents]_vars

\* Requests for one event that all carry an audio file, under the policy
\* that admits every request (no cooldown, no limit, repeat probability 1),
\* with every way run() can end.
\* With no cooldown the clock decides nothing here, so it stands still: all
\* requests read the same time.
FileMsgs == {m \in PlayMsgs : m.audio_path # "" /\ m.event = "coding"}

InitQueue == InitState({0}, {EmptyDict}, {ProbScale})

NextQueue ==
    \/ RunStart
    \/ \E at \in {"worker", "socket"} : RunRaisesUnguarded(at)
    \/ RunRaisesGuarded
    \/ RunExit
    \/ AcceptRaises
    \/ Signal
    \/ \E h \in Handlers, m \in FileMsgs : RecvPlay(h, m)
    \/ \E h \in Handlers : RecvStop(h)
    \/ \E h \in Handlers : Acquire(h)
    \/ \E h \in Handlers : EvaluatePlay(h)
    \/ \E h \in Handlers : QSize(h)
    \/ \E h \in Handlers : GetNowait(h)
    \/ \E h \in Handlers : PutNowait(h)
    \/ \E h \in Handlers : Respond(h)
    \/ \E o \in Outcomes : WorkerPlay(o)
    \/ WorkerResume
    \/ PlayerExit

SpecQueue == InitQueue /\ [][NextQueue]_vars

\* accept() has a timeout of 1 s, so the main thread tests the flag again
\* and again: once the loop can be left, it is left
SpecQueueFair == InitQueue /\ [][NextQueue]_vars /\ WF_vars(RunExit)

\* The worker against one connection at a time.  The worker is a thread of
\* its own: when it can take a task or resume after a failed one, it does;
\* and every player process exits in the end.
NextWorker ==
    \/ RunStart
    \/ RunExit
    \/ \E m \in FileMsgs : RecvPlay(1, m)
    \/ RecvStop(1)
    \/ Acquire(1)
    \/ EvaluatePlay(1)
    \/ QSize(1)
    \/ GetNowait(1)
    \/ PutNowait(1)
    \/ Respond(1)
    \/ \E o \in Outcomes : WorkerPlay(o)
    \/ WorkerResume
    \/ PlayerExit

SpecWorkerFair ==
    /\ InitQueue
    /\ [][NextWorker]_vars
    /\ WF_vars(\E o \in Outcomes : WorkerPlay(o))
    /\ WF_vars(WorkerResume)
    /\ WF_vars(PlayerExit)

\* Requests for one event with and without an audio file, under policies that admit everything or reject by limit, by
\* probability or by cooldown.  The clock stands still, so with a cooldown
\* of 1 every request is within cooldown.
MixedMsgs == {m \in PlayMsgs : m.event = "coding"}

InitMixed == InitState({0, 1}, Dicts({"coding"}, {1}), {0, ProbScale})

NextMixed ==
    \/ RunStart
    \/ \E h \in Handlers, m \in MixedMsgs : RecvPlay(h, m)
    \/ \E h \in Handlers : Acquire(h)
    \/ \E h \in Handlers : EvaluatePlay(h)
    \/ \E h \in Handlers : QSize(h)
    \/ \E h \in Handlers : GetNowait(h)
    \/ \E h \in Handlers : PutNowait(h)
    \/ \E h \in Handlers : Respond(h)
    \/ \E o \in Outcomes : WorkerPlay(o)
    \/ WorkerResume
    \/ PlayerExit

SpecMixed == InitMixed /\ [][NextMixed]_vars

\* Plays with and without a file that meet every verdict, among status and
\* session_reset requests; nothing is taken from the queue but by overflow.
LockMsgs == MixedMsgs \cup {CtlMsg("status"), CtlMsg("session_reset")}

InitLock == InitState({0, 1}, {[e \in {"coding"} |-> MaxLimit]}, {0, ProbScale})

NextLock ==
    \/ RunStart
    \/ \E h \in Handlers, m \in LockMsgs : RecvPlay(h, m)
    \/ \E h \in Handlers, m \in LockMsgs : RecvLocked(h, m)
    \/ \E h \in Handlers : Acquire(h)
    \/ \E h \in Handlers : StatusCopy(h)
    \/ \E h \in Handlers : StatusReturn(h)
    \/ \E h \in Handlers : SessionReset(h)
    \/ \E h \in Handlers : EvaluatePlay(h)
    \/ \E h \in Handlers : QSize(h)
    \/ \E h \in Handlers : GetNowait(h)
    \/ \E h \in Handlers : PutNowait(h)
    \/ \E h \in Handlers : Respond(h)

SpecLock == InitLock /\ [][NextLock]_vars

\* Status requests among plays with an audio file, under the policy that
\* admits every request.
NextStatus ==
    \/ RunStart
    \/ \E h \in Handlers, m \in FileMsgs : RecvPlay(h, m)
    \/ \E h \in Handlers : RecvLocked(h, CtlMsg("status"))
    \/ \E h \in Handlers : Acquire(h)
    \/ \E h \in Handlers : StatusCopy(h)
    \/ \E h \in Handlers : StatusReturn(h)
    \/ \E h \in Handlers : EvaluatePlay(h)
    \/ \E h \in Handlers : QSize(h)
    \/ \E h \in Handlers : GetNowait(h)
    \/ \E h \in Handlers : PutNowait(h)
    \/ \E h \in Handlers : Respond(h)
    \/ \E o \in Outcomes : WorkerPlay(o)
    \/ WorkerResume
    \/ PlayerExit

SpecStatus == InitQueue /\ [][NextStatus]_vars

\* Everything a connection can deliver for one event, without an audio path,
\* under a policy with no cooldown and no repeat skipping.
ProtocolMsgs == {m \in WireMsgs : m.event \in {"", "coding"} /\ m.audio_path = ""}

InitProtocol == InitState({0}, Dicts({"coding"}, {MaxLimit}), {ProbScale})

NextProtocol ==
    \/ RunStart
    \/ RunExit
    \/ \E h \in Handlers, m \in ProtocolMsgs : RecvPlay(h, m)
    \/ \E h \in Handlers, m \in ProtocolMsgs : RecvLocked(h, m)
    \/ \E h \in Handlers : RecvStop(h)
    \/ \E h \in Handlers, m \in ProtocolMsgs : RecvSilent(h, m)
    \/ \E h \in Handlers, m \in ProtocolMsgs : RecvBadJson(h, m)
    \/ \E h \in Handlers, m \in ProtocolMsgs : RecvRaises(h, m)
    \/ \E h \in Handlers, m \in ProtocolMsgs : RecvUnknown(h, m)
    \/ \E h \in Handlers : Close(h)
    \/ \E h \in Handlers : Acquire(h)
    \/ \E h \in Handlers : StatusCopy(h)
    \/ \E h \in Handlers : StatusReturn(h)
    \/ \E h \in Handlers : SessionReset(h)
    \/ \E h \in Handlers : EvaluatePlay(h)
    \/ \E h \in Handlers : Respond(h)

SpecProtocol == InitProtocol /\ [][NextProtocol]_vars

\* Slow clients: a connection may stay silent in its handler for any time.
\* Each handler is a thread of its own, so a handler that can take a step
\* takes it (weak fairness); _last_lock is held for a few statements only
\* and a waiting thread gets it once it is free often enough (strong
\* fairness of Acquire).  Nothing obliges a slow client to send or to time
\* out.
SlowMsgs == BookkeepingMsgs \cup {CtlMsg("status")}

HandlerStep(h) ==
    \/ Acquire(h)
    \/ StatusCopy(h)
    \/ StatusReturn(h)
    \/ EvaluatePlay(h)
    \/ Respond(h)

NextSlow ==
    \/ RunStart
    \/ RunExit
    \/ Tick
    \/ \E h \in Handlers : AcceptSlow(h)
    \/ \E h \in Handlers : RecvTimeout(h)
    \/ \E h \in Handlers, m \in SlowMsgs : SlowCompletes(h, m)
    \/ \E h \in Handlers, m \in SlowMsgs : RecvPlay(h, m)
    \/ \E h \in Handlers, m \in SlowMsgs : RecvLocked(h, m)
    \/ \E h \in Handlers : RecvStop(h)
    \/ \E h \in Handlers : Close(h)
    \/ \E h \in Handlers : HandlerStep(h)

SpecSlow ==
    /\ InitProtocol
    /\ [][NextSlow]_vars
    /\ \A h \in Handlers : WF_vars(HandlerStep(h)) /\ SF_vars(Acquire(h))

\* ---- several processes on one host ------------------------------------------
\* Client invocations that auto-start the daemon, and the daemon processes
\* they start.  Each of those daemons is run() reduced to what it does to
\* SOCKET_PATH and PID_FILE; the state inside a daemon is left out.
daemonvars == <<cooldown, session_limits, repeat_probability, last_played,
                session_counts, last_lock, queue, running, mpc, clock, hpc,
                hmsg, hnow, hresp, hcounts, wpc, players, next_id, played,
                evicted, hdrops, accepted, libvars>>

\* is_running() as a client sees it: the socket file exists and the daemon
\* that bound it answers a status request
HostIsRunning == \E d \in Others : sock_owner = d /\ dpc[d] = "serving"

\* _ensure_daemon_running: `if _daemon.is_running(): return True`
ClientCheck(c) ==
    /\ cpc[c] = "off"
    /\ cpc' = [cpc EXCEPT ![c] = IF HostIsRunning THEN "done" ELSE "spawn"]
    /\ UNCHANGED <<daemonvars, fsvars, dpc, cli>>

\* subprocess.Popen([bin_path, "_daemon-run"], start_new_session=True)
ClientSpawn(c, d) ==
    /\ cpc[c] = "spawn"
    /\ dpc[d] = "off"
    /\ dpc' = [dpc EXCEPT ![d] = "started"]
    /\ cpc' = [cpc EXCEPT ![c] = "poll"]
    /\ UNCHANGED <<daemonvars, fsvars, cli>>

\* up to 20 polls of is_running(), 0.1 s apart
ClientPoll(c) ==
    /\ cpc[c] = "poll"
    /\ HostIsRunning
    /\ cpc' = [cpc EXCEPT ![c] = "done"]
    /\ UNCHANGED <<daemonvars, fsvars, dpc, cli>>

ClientGiveUp(c) ==
    /\ cpc[c] = "poll"
    /\ ~HostIsRunning
    /\ cpc' = [cpc EXCEPT ![c] = "failed"]
    /\ UNCHANGED <<daemonvars, fsvars, dpc, cli>>

\* SOCKET_PATH.unlink(missing_ok=True): the file goes, whoever bound it
DaemonUnlink(d) ==
    /\ dpc[d] = "started"
    /\ sock_owner' = Unlinked(sock_owner)
    /\ dpc' = [dpc EXCEPT ![d] = "unlinked"]
    /\ UNCHANGED <<daemonvars, pid_owner, cpc, cli>>

\* PID_FILE.write_text(str(os.getpid()))
DaemonWritePid(d) ==
    /\ dpc[d] = "unlinked"
    /\ pid_owner' = d
    /\ dpc' = [dpc EXCEPT ![d] = "pid"]
    /\ UNCHANGED <<daemonvars, sock_owner, cpc, cli>>

\* server.bind(): creates the socket file, or fails with EADDRINUSE when
\* the path exists; then finally runs _cleanup and the process ends
DaemonBind(d) ==
    /\ dpc[d] = "pid"
    /\ IF sock_owner = 0
       THEN /\ sock_owner' = d
            /\ dpc' = [dpc EXCEPT ![d] = "serving"]
            /\ UNCHANGED pid_owner
       ELSE /\ sock_owner' = Unlinked(sock_owner)
            /\ pid_owner' = Unlinked(pid_owner)
            /\ dpc' = [dpc EXCEPT ![d] = "exited"]
    /\ UNCHANGED <<daemonvars, cpc, cli>>

\* the accept loop ends (stop message, signal, OSError); _cleanup
DaemonExit(d) ==
    /\ dpc[d] = "serving"
    /\ sock_owner' = Unlinked(sock_owner)
    /\ pid_owner' = Unlinked(pid_owner)
    /\ dpc' = [dpc EXCEPT ![d] = "exited"]
    /\ UNCHANGED <<daemonvars, cpc, cli>>

NextHost ==
    \/ \E c \in Clients : ClientCheck(c)
    \/ \E c \in Clients, d \in Others : ClientSpawn(c, d)
    \/ \E c \in Clients : ClientPoll(c)
    \/ \E c \in Clients : ClientGiveUp(c)
    \/ \E d \in Others : DaemonUnlink(d)
    \/ \E d \in Others : DaemonWritePid(d)
    \/ \E d \in Others : DaemonBind(d)
    \/ \E d \in Others : DaemonExit(d)

SpecHost == InitQueue /\ [][NextHost]_vars

\* ---- client commands: _send, is_running, play, on-hook ---------------------
\* what can happen to one round trip of _send
Transports == {"no_socket", "refused", "send_timeout", "recv_timeout",
               "empty_reply", "garbled_reply", "reply"}

\* the outcomes the host allows: no file at SOCKET_PATH, a file nobody
\* listens on, or a daemon that answers, answers late, or closes
Possible(via) ==
    IF sock_owner = 0 THEN via = "no_socket"
    ELSE IF sock_owner \in Others /\ dpc[sock_owner] = "serving"
         THEN via \in Transports \ {"no_socket", "refused"}
    ELSE via = "refused"

\* the lines a daemon writes back
Replies(cmd) ==
    IF cmd = "probe" THEN {StatusResp(0, EmptyDict, EmptyDict)}
    ELSE {PlayResp(r, MaxLimit, MaxLimit) :
            r \in {"ok", "session_limit", "skipped", "cooldown"}}

\* connect, sendall and json.loads raise; a recv timeout or a closed
\* connection only ends the read loop
Raises(via) ==
    via \in {"no_socket", "refused", "send_timeout", "garbled_reply"}

\* except Exception: return None
SendCatchesOSError(via) == via # "garbled_reply"

SendCatches(via) == TRUE

\* _send(msg)
Send(via, reply) ==
    IF Raises(via)
    THEN IF SendCatches(via) THEN PyNone ELSE Raised
    ELSE IF via = "reply" THEN reply
    ELSE PyNone

\* is_running(): SOCKET_PATH.exists(), then a status round trip
IsRunningResult(exists, resp) == exists /\ resp # PyNone /\ resp.ok

\* `if resp is not None: ... return`
HandledOnlyIfOk(resp) == resp # PyNone /\ resp.ok

Handled(resp) == resp # PyNone

\* chuuni_voice/config.py defines no get_cooldowns
HasGetCooldownsDefined == TRUE

HasGetCooldowns == FALSE

\* whether the daemon's handler claimed the slot and enqueued the task for a
\* request: it did when its reply says ok, whether the reply reaches the
\* client in time, late (the client's recv timed out) or cut short; a
\* request that never reached a handler, or whose handler closed without a
\* reply, was not admitted
AdmittedByDaemon(via, reply) ==
    via \in {"reply", "recv_timeout", "garbled_reply"} /\ reply.ok

\* `from chuuni_voice.config import get_cooldowns`
ImportGetCooldowns == IF HasGetCooldowns THEN "imported" ELSE "ImportError"

\* is_running() called by a client
CliProbe(c, via, reply) ==
    /\ cli[c].pc = "off"
    /\ Possible(via)
    /\ reply \in Replies("probe")
    /\ LET exists == sock_owner # 0
           resp == IF exists THEN Send(via, reply) ELSE PyNone
       IN  cli' = [cli EXCEPT ![c] =
                     [CliOff EXCEPT !.pc = "exit", !.cmd = "probe",
                                    !.via = via, !.resp = resp,
                                    !.up = (resp # Raised
                                            /\ IsRunningResult(exists, resp)),
                                    !.status = IF resp = Raised THEN "error"
                                               ELSE "ok"]]
    /\ UNCHANGED <<daemonvars, fsvars, dpc, cpc>>

\* play (after _ensure_daemon_running) and on-hook (at once): send_play
CliSendPlay(c, cmd, via, reply) ==
    /\ cli[c].pc = "off"
    /\ cmd \in {"play", "hook"}
    /\ IF cmd = "play" THEN cpc[c] \in {"done", "failed"} ELSE cpc[c] = "off"
    /\ Possible(via)
    /\ reply \in Replies(cmd)
    /\ LET resp == Send(via, reply)
       IN  cli' = [cli EXCEPT ![c] =
                     [CliOff EXCEPT !.pc = IF resp = Raised THEN "exit"
                                          ELSE "sent",
                                    !.cmd = cmd, !.via = via, !.resp = resp,
                                    !.admitted = AdmittedByDaemon(via, reply),
                                    !.status = IF resp = Raised THEN "error"
                                               ELSE ""]]
    /\ UNCHANGED <<daemonvars, fsvars, dpc, cpc>>

\* `if resp is not None: if resp.get("ok"): click.echo(line); return`
CliHandle(c) ==
    /\ cli[c].pc = "sent"
    /\ cli' = [cli EXCEPT ![c] =
                 IF Handled(cli[c].resp)
                 THEN [@ EXCEPT !.pc = "exit", !.line = cli[c].resp.ok,
                                !.status = "ok"]
                 ELSE [@ EXCEPT !.pc = "fallback"]]
    /\ UNCHANGED <<daemonvars, fsvars, dpc, cpc>>

\* the fallback: import get_cooldowns, _check_and_claim_cooldown, the voice
\* line, and _play_blocking when an audio file was resolved
CliFallback(c, claimed, has_audio) ==
    /\ cli[c].pc = "fallback"
    /\ cli' = [cli EXCEPT ![c] =
                 IF ImportGetCooldowns = "ImportError"
                 THEN [@ EXCEPT !.pc = "exit", !.status = "error"]
                 ELSE [@ EXCEPT !.pc = "exit", !.line = claimed,
                                !.audio = claimed /\ has_audio,
                                !.status = "ok"]]
    /\ UNCHANGED <<daemonvars, fsvars, dpc, cpc>>

\* the command's process ends
CliDone(c) ==
    /\ cli[c].pc = "exit"
    /\ cli' = [cli EXCEPT ![c] = CliOff]
    /\ cpc' = [cpc EXCEPT ![c] = "off"]
    /\ UNCHANGED <<daemonvars, fsvars, dpc>>

\* SIGKILL: the daemon goes without _cleanup, its files stay
DaemonKilled(d) ==
    /\ dpc[d] = "serving"
    /\ dpc' = [dpc EXCEPT ![d] = "exited"]
    /\ UNCHANGED <<daemonvars, fsvars, cpc, cli>>

\* one client runs commands; the other only starts daemons
Commanders == {1}

NextClient ==
    \/ NextHost
    \/ \E d \in Others : DaemonKilled(d)
    \/ \E c \in Commanders, via \in Transports, r \in Replies("probe") :
          CliProbe(c, via, r)
    \/ \E c \in Commanders, cmd \in {"play", "hook"}, via \in Transports,
          r \in Replies("play") : CliSendPlay(c, cmd, via, r)
    \/ \E c \in Commanders : CliHandle(c)
    \/ \E c \in Commanders, claimed \in BOOLEAN, has_audio \in BOOLEAN :
          CliFallback(c, claimed, has_audio)
    \/ \E c \in Commanders : CliDone(c)

SpecClient == InitQueue /\ [][NextClient]_vars

\* ---- player.py: the in-process playback queue ------------------------------
PLAYER_QUEUE_MAX == 3

\* while _play_queue.qsize() >= _QUEUE_MAX
PlayerFullAbove(q) == Len(q) > PLAYER_QUEUE_MAX

PlayerFull(q) == Len(q) >= PLAYER_QUEUE_MAX

\* a call of _enqueue_task begins
EnqueueCall ==
    /\ pq.epc = "idle"
    /\ pq.next < MaxTasks
    /\ pq' = [pq EXCEPT !.epc = "qsize"]
    /\ UNCHANGED <<progvars, fc, st, hk>>

\* _play_queue.qsize()
EnqueueQSize ==
    /\ pq.epc = "qsize"
    /\ pq' = [pq EXCEPT !.epc = IF PlayerFull(pq.queue) THEN "get_nowait"
                                ELSE "put_nowait"]
    /\ UNCHANGED <<progvars, fc, st, hk>>

\* _play_queue.get_nowait(); queue.Empty leaves the loop
EnqueueGetNowait ==
    /\ pq.epc = "get_nowait"
    /\ pq' = IF pq.queue # <<>>
             THEN [pq EXCEPT !.queue = Tail(pq.queue),
                             !.dropped = @ \cup {Head(pq.queue)},
                             !.epc = "qsize"]
             ELSE [pq EXCEPT !.epc = "put_nowait"]
    /\ UNCHANGED <<progvars, fc, st, hk>>

\* _play_queue.put_nowait((path, volume))
EnqueuePut ==
    /\ pq.epc = "put_nowait"
    /\ pq' = [pq EXCEPT !.queue = Append(pq.queue, pq.next + 1),
                        !.next = pq.next + 1,
                        !.epc = "idle"]
    /\ UNCHANGED <<progvars, fc, st, hk>>

\* _queue_worker: path, volume = _play_queue.get()
PlayerWorkerGet ==
    /\ pq.wpc = "get"
    /\ pq.queue # <<>>
    /\ pq' = [pq EXCEPT !.queue = Tail(pq.queue),
                        !.played = Append(@, Head(pq.queue)),
                        !.wpc = "playing"]
    /\ UNCHANGED <<progvars, fc, st, hk>>

\* _play_blocking_wait returns; _play_queue.task_done()
PlayerWorkerDone ==
    /\ pq.wpc = "playing"
    /\ pq' = [pq EXCEPT !.wpc = "get"]
    /\ UNCHANGED <<progvars, fc, st, hk>>

NextPlayer ==
    \/ EnqueueCall
    \/ EnqueueQSize
    \/ EnqueueGetNowait
    \/ EnqueuePut
    \/ PlayerWorkerGet
    \/ PlayerWorkerDone

InitPlayer ==
    /\ InitProg({0}, {EmptyDict}, {ProbScale})
    /\ pq = PlayerIdle
    /\ fc = FileUnused
    /\ st = SettingsUnused
    /\ hk = HookOff

SpecPlayer == InitPlayer /\ [][NextPlayer]_vars

TypeOK ==
    /\ cooldown \in 0..MaxCooldown
    /\ repeat_probability \in 0..ProbScale
    /\ last_lock \in {0} \cup Handlers
    /\ running \in BOOLEAN
    /\ players \in Nat

\* ---- properties -----------------------------------------------------------
Count(e) == Get(session_counts, e, 0)

Limit(e) == Get(session_limits, e, 0)

Rejections == {"session_limit", "skipped", "cooldown"}

\* handler h has finished a play request and holds its response
Answered(h) == hpc[h] = "respond" /\ hmsg[h].type = "play"

Range(f) == {f[i] : i \in DOMAIN f}

\* C1: an event with session limit L > 0 never has a session count above L,
\* and a play request evaluated while count = L is rejected with reason
\* "session_limit", count = L and limit = L.
Thm_C1 ==
    /\ [](\A e \in Events : Limit(e) > 0 => Count(e) <= Limit(e))
    /\ [][\A h \in Handlers :
            (EvaluatePlay(h) /\ Limit(hmsg[h].event) > 0
                /\ Count(hmsg[h].event) = Limit(hmsg[h].event))
            => hresp'[h] = Resp(FALSE, "session_limit", Limit(hmsg[h].event),
                                Limit(hmsg[h].event))]_vars

Wit_C1 ==
    \E h \in Handlers :
        /\ Answered(h)
        /\ hresp[h].reason = "session_limit"
        /\ hresp[h].limit >= 2
        /\ hresp[h].count = hresp[h].limit
        /\ Count(hmsg[h].event) = Limit(hmsg[h].event)

\* a play request of handler h is accepted in this step
Accepts(h) ==
    EvaluatePlay(h) /\ (hpc'[h] = "qsize" \/ hresp'[h] = RespOk)

\* C2: a play request that is rejected (session_limit, skipped or cooldown)
\* leaves last_played and session_counts as they were; last_played changes
\* only when a play request is accepted, session_counts only then or on a
\* session_reset.
Thm_C2 ==
    [][/\ \A h \in Handlers :
            (EvaluatePlay(h) /\ hresp'[h].reason \in Rejections)
            => (last_played' = last_played /\ session_counts' = session_counts)
       /\ (last_played' # last_played) => \E h \in Handlers : Accepts(h)
       /\ (session_counts' # session_counts)
            => \E h \in Handlers : Accepts(h) \/ SessionReset(h)]_vars

Wit_C2 ==
    \E h \in Handlers :
        /\ Answered(h)
        /\ hresp[h].reason \in {"skipped", "cooldown"}
        /\ Count(hmsg[h].event) > 0
        /\ hmsg[h].event \in DOMAIN last_played

\* C3: with cooldown c > 0, repeat probability 1 and the session limit not
\* reached, a play request whose clock reading is t2, for an event last
\* accepted at t1, is rejected with reason "cooldown" when t2 - t1 < c and
\* is accepted when t2 - t1 >= c.
Thm_C3 ==
    [][\A h \in Handlers :
         (/\ EvaluatePlay(h)
          /\ cooldown > 0
          /\ repeat_probability = ProbScale
          /\ ~(Limit(hmsg[h].event) > 0 /\ Count(hmsg[h].event) >= Limit(hmsg[h].event))
          /\ hmsg[h].event \in DOMAIN last_played)
         => IF hnow[h] - last_played[hmsg[h].event] < cooldown
            THEN hresp'[h] = Resp(FALSE, "cooldown", -1, -1)
                 /\ last_played' = last_played
            ELSE hresp'[h] = RespOk
                 /\ last_played'[hmsg[h].event] = hnow[h]]_vars

\* a second play accepted exactly one cooldown after the first
Wit_C3 ==
    \E h \in Handlers :
        /\ Answered(h)
        /\ hresp[h] = RespOk
        /\ cooldown > 0
        /\ repeat_probability = ProbScale
        /\ Count(hmsg[h].event) >= 2
        /\ last_played[hmsg[h].event] = clock

\* C4: a play request evaluated while the session count of its event is 0
\* is never rejected with reason "skipped", whatever the repeat probability
\* and the draw.
Thm_C4 ==
    [][\A h \in Handlers :
         (EvaluatePlay(h) /\ Count(hmsg[h].event) = 0)
         => hresp'[h].reason # "skipped"]_vars

Wit_C4 ==
    \E h \in Handlers :
        /\ Answered(h)
        /\ hresp[h] = RespOk
        /\ repeat_probability = 0
        /\ Count(hmsg[h].event) = 1

Thm_C10 ==
    [][\A h \in Handlers :
         EvaluatePlay(h)
         => LET e == hmsg[h].event
                atLimit == Limit(e) > 0 /\ Count(e) >= Limit(e)
            IN  /\ atLimit => hresp'[h].reason = "session_limit"
                /\ \A roll \in 0..(ProbScale - 1) :
                     (~atLimit /\ Count(e) > 0 /\ roll >= repeat_probability)
                     => Verdict(h, roll) = "skipped"
                /\ (~atLimit /\ Count(e) > 0 /\ repeat_probability = 0)
                     => hresp'[h].reason = "skipped"]_vars

\* a repeat answered "skipped" while its event is still within cooldown
Wit_C10 ==
    \E h \in Handlers :
        /\ Answered(h)
        /\ hresp[h].reason = "skipped"
        /\ hmsg[h].event \in DOMAIN last_played
        /\ clock - last_played[hmsg[h].event] < cooldown

\* C11: for a repeat play (session count > 0, limit not reached) with draw r
\* and repeat probability p, the verdict is "skipped" exactly when r >= p,
\* and when r < p it is what the cooldown check alone decides; with p = 0
\* every repeat is answered "skipped", with p = 1 none is.
Thm_C11 ==
    [][\A h \in Handlers :
         (/\ EvaluatePlay(h)
          /\ Count(hmsg[h].event) > 0
          /\ ~(Limit(hmsg[h].event) > 0 /\ Count(hmsg[h].event) >= Limit(hmsg[h].event)))
         => LET last == Get(last_played, hmsg[h].event, 0)
            IN  /\ \A r \in 0..(ProbScale - 1) :
                     /\ (Verdict(h, r) = "skipped") <=> (r >= repeat_probability)
                     /\ (r < repeat_probability)
                          => Verdict(h, r) = IF hnow[h] - last < cooldown
                                             THEN "cooldown" ELSE "ok"
                /\ (hresp'[h].reason = "skipped")
                     => repeat_probability < ProbScale
                /\ (repeat_probability = 0) => hresp'[h].reason = "skipped"
                /\ (repeat_probability = ProbScale)
                     => hresp'[h].reason # "skipped"]_vars

\* a repeat accepted under a repeat probability strictly between 0 and 1
Wit_C11 ==
    \E h \in Handlers :
        /\ Answered(h)
        /\ hresp[h] = RespOk
        /\ Count(hmsg[h].event) >= 2
        /\ repeat_probability > 0
        /\ repeat_probability < ProbScale

\* handler h takes up a connection in this step
Receives(h) == hpc[h] = "idle" /\ hpc'[h] # "idle"

KnownTypes == {"play", "status", "session_reset", "stop"}

\* C12 as stated: a connection that delivered a non-empty newline-terminated
\* message is never closed without a response, whatever the message holds.
CE_C12 ==
    \A h \in Handlers :
        (hmsg[h].newline /\ hmsg[h].json # "empty") => hpc[h] # "closing"

\* C13 as stated: a message of unknown type is answered ok = false with the
\* reason "unknown type: " followed by the type value itself.
CE_C13 ==
    [][\A h \in Handlers :
         (/\ Receives(h)
          /\ hmsg'[h].json = "object"
          /\ hmsg'[h].type \notin KnownTypes \cup {NoType})
         => hresp'[h] = Resp(FALSE, "unknown type: " \o hmsg'[h].type, -1, -1)]_vars

\* C13 amended: a JSON object whose type is not play, status, session_reset
\* or stop is answered ok = false with the reason "unknown type: " followed
\* by the Python repr of the type value (the string in single quotes, so
\* "unknown type: 'bogus'" for "bogus"; None when the key is absent), and
\* it changes no daemon state.
Thm_C13 ==
    [][\A h \in Handlers :
         (/\ Receives(h)
          /\ hmsg'[h].json = "object"
          /\ hmsg'[h].type \notin KnownTypes)
         => /\ hresp'[h].ok = FALSE
            /\ hresp'[h].reason =
                  IF hmsg'[h].type = NoType THEN "unknown type: None"
                  ELSE "unknown type: '" \o hmsg'[h].type \o "'"
            /\ (hmsg'[h].type = "bogus")
                  => hresp'[h].reason = "unknown type: 'bogus'"
            /\ UNCHANGED <<fsvars, procvars, cfgvars, admvars, last_lock, queue, running, mpc,
                           wvars>>]_vars

Wit_C13 ==
    \E h \in Handlers :
        /\ hpc[h] = "respond"
        /\ hmsg[h].type = "bogus"
        /\ hresp[h].reason = "unknown type: 'bogus'"
        /\ Count("coding") > 0

\* C14 as stated: a connection that delivers no complete newline-terminated
\* message is closed silently and nothing is dispatched.
CE_C14 ==
    \A h \in Handlers : ~hmsg[h].newline => hpc[h] \in {"idle", "closing"}

\* C14 amended: a connection that delivers nothing but whitespace before
\* the read timeout or its end is closed silently, with no response and no
\* change of daemon state; bytes that arrive without a final newline are
\* handled exactly as the same bytes followed by a newline (answered
\* "bad JSON", dispatched, or dropped by an exception).
Thm_C14 ==
    [][\A h \in Handlers :
         Receives(h)
         => /\ (hmsg'[h].json = "empty")
                 => /\ hpc'[h] = "closing"
                    /\ hresp'[h] = NoResp
                    /\ UNCHANGED <<fsvars, procvars, cfgvars, admvars, last_lock, queue,
                                   running, mpc, wvars>>
            /\ hpc'[h] = EntryPc(RouteBody(Terminated(hmsg'[h])))]_vars

\* an unterminated play request was admitted while an empty connection is
\* being closed
Wit_C14 ==
    \E h, g \in Handlers :
        /\ Answered(h)
        /\ ~hmsg[h].newline
        /\ hresp[h] = RespOk
        /\ hpc[g] = "closing"
        /\ hmsg[g] = Unterminated(Data("empty"))

\* handler h is serving a status request in this step
StatusStep(h) ==
    \/ RecvLocked(h, CtlMsg("status"))
    \/ hmsg[h].type = "status" /\ hpc'[h] # hpc[h]

\* C15: no step of a status request changes the session counts, the
\* last-played timestamps, the queue or the running flag; the response
\* carries ok = true, the queue size at the time it is read, the session
\* counts as they were when copied under the lock, and the configured
\* session limits.
Thm_C15 ==
    [][\A h \in Handlers :
         /\ StatusStep(h)
            => UNCHANGED <<fsvars, procvars, cfgvars, admvars, queue, running, mpc, wvars>>
         /\ StatusCopy(h) => hcounts'[h] = session_counts
         /\ StatusReturn(h)
            => /\ hresp'[h].ok
               /\ hresp'[h].queue_size = Len(queue)
               /\ hresp'[h].session_counts = hcounts[h]
               /\ hresp'[h].session_limits = session_limits]_vars

\* a status response that reports pending tasks and counts older than the
\* live ones
Wit_C15 ==
    \E h \in Handlers :
        /\ hpc[h] = "respond"
        /\ hmsg[h].type = "status"
        /\ hresp[h].queue_size >= 2
        /\ hresp[h].queue_size = Len(queue)
        /\ Get(hresp[h].session_counts, "coding", 0) >= 2
        /\ Get(hresp[h].session_counts, "coding", 0) < Count("coding")

\* C16: a play request that passes the three checks is answered {ok: true}
\* and sets last_played to its clock reading and the session count to one
\* more; with a non-empty audio path it appends exactly one task carrying
\* its path and volume before it is answered, with an empty path it
\* appends nothing; a rejected request appends nothing; the queue grows
\* only by such an append.
Thm_C16 ==
    [][/\ \A h \in Handlers :
            /\ Accepts(h)
               => /\ last_played' = Put(last_played, hmsg[h].event, hnow[h])
                  /\ session_counts' = Put(session_counts, hmsg[h].event,
                                           Count(hmsg[h].event) + 1)
                  /\ queue' = queue
                  /\ IF hmsg[h].audio_path = ""
                     THEN hpc'[h] = "respond" /\ hresp'[h] = RespOk
                     ELSE hpc'[h] = "qsize"
            /\ (EvaluatePlay(h) /\ ~Accepts(h))
               => /\ hpc'[h] = "respond"
                  /\ hresp'[h].reason \in Rejections
                  /\ queue' = queue
            /\ (hpc[h] \in {"qsize", "get_nowait", "put_nowait"})
               => (hmsg[h].audio_path # "" /\ hresp[h] = NoResp)
            /\ (hpc[h] \in {"qsize", "get_nowait", "put_nowait"}
                  /\ hpc'[h] = "respond")
               => /\ queue' = Append(queue, [id |-> next_id + 1,
                                             audio_path |-> hmsg[h].audio_path,
                                             volume |-> hmsg[h].volume])
                  /\ hresp'[h] = RespOk
       /\ (Len(queue') > Len(queue)) => \E h \in Handlers : PutNowait(h)]_vars

\* an accepted request without a path and an accepted request with a path
\* are both about to be answered, the task of the latter last in the queue
Wit_C16 ==
    \E h, g \in Handlers :
        /\ Answered(h) /\ hmsg[h].audio_path = "" /\ hresp[h] = RespOk
        /\ Answered(g) /\ hmsg[g].audio_path # "" /\ hresp[g] = RespOk
        /\ Len(queue) >= 1
        /\ queue[Len(queue)].id = next_id

\* is_running(): the socket file exists and a status round trip succeeds
IsRunning == sock_owner = Self /\ mpc = "serving" /\ running

\* C17: a stop message is answered {ok: true} and clears the running flag,
\* which then stays false; the daemon then eventually leaves the accept
\* loop and removes the socket file and the PID file, after which
\* is_running() is false for good; leaving the loop is possible whatever
\* the queue holds and whether or not a player runs.
Thm_C17 ==
    /\ [][\A h \in Handlers :
            RecvStop(h) => (hresp'[h] = RespOk /\ ~running')]_vars
    /\ [][(mpc # "new" /\ ~running) => ~running']_vars
    /\ [](\A h \in Handlers :
            (hpc[h] = "respond" /\ hmsg[h].type = "stop")
            => (~running /\ hresp[h] = RespOk))
    /\ ((mpc = "serving" /\ ~running)
          ~> (mpc = "exited" /\ sock_owner = 0 /\ pid_owner = 0))
    /\ [](mpc = "exited" => [](mpc = "exited" /\ ~IsRunning))
    /\ []((mpc = "serving" /\ ~running) => ENABLED RunExit)

\* the daemon has exited after a stop while tasks are pending and a player
\* is still running
Wit_C17 ==
    /\ mpc = "exited"
    /\ ~running
    /\ sock_owner = 0 /\ pid_owner = 0
    /\ Len(queue) >= 2
    /\ players = 1
    /\ \E h \in Handlers : hpc[h] = "respond" /\ hmsg[h].type = "stop"

\* C18 as stated: however run() ends once the PID file is written, by
\* return or by exception, neither the socket file nor the PID file is
\* left behind.
CE_C18 ==
    (mpc \in {"exited", "raised"}) => (sock_owner = 0 /\ pid_owner = 0)

\* C19: a playback failure (missing file, no player, Popen raising) leaves
\* the worker in its loop: it logs, goes back to get() and takes the next
\* task; the worker never dies, and a failure changes no handler's
\* response or position.
Thm_C19 ==
    /\ [](wpc \in {"unstarted", "get", "wait", "logged"})
    /\ [][\A o \in Outcomes \ {"spawned"} :
            WorkerPlay(o) => (wpc' = "logged" /\ UNCHANGED <<hvars, players>>)]_vars
    /\ [][(wpc = "logged" /\ wpc' # wpc) => wpc' = "get"]_vars
    /\ []((wpc = "logged") => ENABLED WorkerResume)
    /\ []((wpc = "get" /\ queue # <<>>) => ENABLED WorkerPlay("spawned"))

\* a failure is being logged after earlier tasks were attempted, with
\* tasks still pending
Wit_C19 == wpc = "logged" /\ Len(played) >= 3 /\ Len(queue) >= 2

Serving == {d \in Others : dpc[d] = "serving"}

\* C20 as stated: at no time are two daemon processes serving, because a
\* daemon that starts while another is bound to the socket path fails to
\* bind and exits.
CE_C20 == Cardinality(Serving) <= 1

\* C22 as stated: with cooldown 0 no play request is answered "cooldown",
\* however the handlers interleave.
CE_C22 ==
    [][\A h \in Handlers :
         (EvaluatePlay(h) /\ cooldown = 0)
         => hresp'[h].reason # "cooldown"]_vars

\* C23: an accepted play records its clock reading as the event's
\* last-played time, and it is accepted only if that reading is at least
\* one cooldown after the time recorded before; no other request changes
\* the recorded time.  So the recorded times of any two accepted plays of
\* an event differ by at least the cooldown, whatever play, status and
\* session_reset requests come between.
Thm_C23 ==
    /\ [][\A h \in Handlers :
            Accepts(h)
            => /\ last_played'[hmsg[h].event] = hnow[h]
               /\ (hmsg[h].event \in DOMAIN last_played)
                    => hnow[h] - last_played[hmsg[h].event] >= cooldown]_vars
    /\ [][\A e \in DOMAIN last_played :
            /\ e \in DOMAIN last_played'
            /\ \/ last_played'[e] = last_played[e]
               \/ last_played'[e] - last_played[e] >= cooldown]_vars

\* three plays accepted one cooldown apart
Wit_C23 ==
    \E h \in Handlers :
        /\ Answered(h)
        /\ hresp[h] = RespOk
        /\ cooldown = 1
        /\ Count(hmsg[h].event) >= 3
        /\ last_played[hmsg[h].event] = 3

\* C26: an event whose session limit is 0 or that has no limit entry is
\* never answered "session_limit", whatever its session count.
Thm_C26 ==
    [][\A h \in Handlers :
         (EvaluatePlay(h) /\ Get(session_limits, hmsg[h].event, 0) = 0)
         => hresp'[h].reason # "session_limit"]_vars

\* a play accepted at the highest count under an explicit limit of 0
Wit_C26 ==
    \E h \in Handlers :
        /\ Answered(h)
        /\ hresp[h] = RespOk
        /\ hmsg[h].event \in DOMAIN session_limits
        /\ session_limits[hmsg[h].event] = 0
        /\ Count(hmsg[h].event) >= MaxPlays

\* C24: for every event the session count equals the number of play
\* requests for it accepted (the ones answered {ok: true}) since the daemon
\* started or since the last session_reset, under every interleaving of
\* the handlers; a step changes it only by +1, when it accepts a play of
\* that event, or to zero, on a session_reset; and the accepting step,
\* taken while the handler holds the lock, also writes last_played.
Thm_C24 ==
    /\ [](\A e \in Events : Count(e) = Get(accepted, e, 0))
    /\ [][\A e \in Events :
            \/ Get(session_counts', e, 0) = Count(e)
            \/ /\ Get(session_counts', e, 0) = Count(e) + 1
               /\ \E h \in Handlers : Accepts(h) /\ hmsg[h].event = e
            \/ /\ Get(session_counts', e, 0) = 0
               /\ \E h \in Handlers : SessionReset(h)]_vars
    /\ [][\A h \in Handlers :
            Accepts(h)
            => /\ last_lock = h
               /\ Get(session_counts', hmsg[h].event, 0) = Count(hmsg[h].event) + 1
               /\ last_played'[hmsg[h].event] = hnow[h]]_vars

\* a play accepted after a session_reset whose answer is still to be
\* written: it is the one play counted
Wit_C24 ==
    \E h, g \in Handlers :
        /\ hpc[g] = "respond"
        /\ hmsg[g].type = "session_reset"
        /\ Answered(h)
        /\ hresp[h] = RespOk
        /\ Get(accepted, hmsg[h].event, 0) = 1
        /\ Count(hmsg[h].event) = 1

\* C21 as stated: a play request that passes the session-limit and
\* probability checks is rejected "cooldown" exactly when less than the
\* cooldown configured for its own event has elapsed since that event was
\* last accepted.
CE_C21 ==
    [][\A h \in Handlers :
         (/\ EvaluatePlay(h)
          /\ hmsg[h].event \in DOMAIN last_played
          /\ hresp'[h].reason \notin {"session_limit", "skipped"})
         => (hresp'[h].reason = "cooldown"
             <=> hnow[h] - last_played[hmsg[h].event]
                   < EventCooldowns[hmsg[h].event])]_vars

\* C25: evaluating a play request for event e leaves last_played and
\* session_counts of every other event as they were, and its verdict is the
\* one the checks give on e's own count, limit and last-played time: an
\* event in cooldown or at its session limit does not hold back another.
Thm_C25 ==
    [][\A h \in Handlers :
         EvaluatePlay(h)
         => LET e == hmsg[h].event
                own(roll) ==
                    IF Limit(e) > 0 /\ Count(e) >= Limit(e) THEN "session_limit"
                    ELSE IF Count(e) > 0 /\ roll >= repeat_probability
                         THEN "skipped"
                    ELSE IF hnow[h] - Get(last_played, e, 0) < cooldown
                         THEN "cooldown"
                    ELSE "ok"
            IN  /\ \A f \in Events \ {e} :
                     /\ (f \in DOMAIN last_played') = (f \in DOMAIN last_played)
                     /\ Get(last_played', f, 0) = Get(last_played, f, 0)
                     /\ (f \in DOMAIN session_counts')
                          = (f \in DOMAIN session_counts)
                     /\ Get(session_counts', f, 0) = Count(f)
                /\ (IF hresp'[h].ok THEN "ok" ELSE hresp'[h].reason)
                     \in {own(roll) : roll \in 0..(ProbScale - 1)}
                /\ (Count(e) = 0 /\ hnow[h] >= cooldown
                        /\ ~(Limit(e) > 0 /\ Count(e) >= Limit(e)))
                     => hresp'[h] = RespOk]_vars

\* a first play of one event accepted while the other event is at its
\* session limit and inside its cooldown
Wit_C25 ==
    \E h \in Handlers :
        /\ Answered(h)
        /\ hresp[h] = RespOk
        /\ hmsg[h].event = "bash_run"
        /\ Count("bash_run") = 1
        /\ Limit("coding") > 0
        /\ Count("coding") = Limit("coding")
        /\ "coding" \in DOMAIN last_played
        /\ clock - last_played["coding"] < cooldown

\* C27: while one client holds a connection open without having sent its
\* request, the running daemon still takes a request from another client
\* on a free handler, and every request a handler has received is answered,
\* however long the silent client stays.
Thm_C27 ==
    /\ [](\A h, g \in Handlers :
            (/\ h # g
             /\ hpc[h] = "recv"
             /\ hpc[g] = "idle"
             /\ mpc = "serving" /\ running)
            => /\ ENABLED RecvLocked(g, CtlMsg("status"))
               /\ \A m \in BookkeepingMsgs : Capped(m) => ENABLED RecvPlay(g, m))
    /\ \A g \in Handlers : (hpc[g] = "acquire") ~> (hpc[g] = "respond")

\* a play answered {ok: true} while the other connection is still silent
Wit_C27 ==
    \E h, g \in Handlers :
        /\ hpc[h] = "recv"
        /\ Answered(g)
        /\ hresp[g] = RespOk

\* C28: _send never lets an exception out, and it returns None whenever
\* the round trip failed: no socket file, connection refused, a timeout
\* while sending or receiving, an empty or an unparsable reply; and
\* is_running() is true only after a status round trip whose reply had
\* ok = true.
Thm_C28 ==
    /\ [](\A c \in Clients : cli[c].resp # Raised)
    /\ [](\A c \in Clients :
            (cli[c].pc # "off" /\ cli[c].via # "reply") => cli[c].resp = PyNone)
    /\ [](\A c \in Clients :
            (cli[c].cmd = "probe" /\ cli[c].up)
            => (cli[c].via = "reply" /\ cli[c].resp.ok))

\* send_play came back with None from a reply that is not JSON
Wit_C28 ==
    \E c \in Clients :
        /\ cli[c].pc = "fallback"
        /\ cli[c].via = "garbled_reply"
        /\ cli[c].resp = PyNone

\* C29 as stated: a play or on-hook command whose send_play returned None
\* ends without an error.
CE_C29 ==
    \A c \in Clients :
        (/\ cli[c].pc = "exit"
         /\ cli[c].cmd \in {"play", "hook"}
         /\ cli[c].resp = PyNone)
        => cli[c].status = "ok"

\* C30: a play or on-hook command that got a rejection from the daemon
\* ends at once without an error, having printed no voice line and played
\* nothing itself.
Thm_C30 ==
    /\ [](\A c \in Clients :
            (/\ cli[c].pc = "exit"
             /\ cli[c].cmd \in {"play", "hook"}
             /\ cli[c].resp # PyNone
             /\ ~cli[c].resp.ok)
            => (~cli[c].line /\ ~cli[c].audio /\ cli[c].status = "ok"))
    /\ [][\A c \in Clients :
            (CliHandle(c) /\ cli[c].resp # PyNone /\ ~cli[c].resp.ok)
            => cli'[c].pc = "exit"]_vars

\* on-hook ends normally on a session_limit rejection
Wit_C30 ==
    \E c \in Clients :
        /\ cli[c].pc = "exit"
        /\ cli[c].cmd = "hook"
        /\ cli[c].resp.reason = "session_limit"
        /\ cli[c].status = "ok"
        /\ ~cli[c].line

\* C36 as stated: a play request for an event with no recorded last-played
\* time is never answered "cooldown", whatever the cooldown and the clock.
CE_C36 ==
    [][\A h \in Handlers :
         (EvaluatePlay(h) /\ hmsg[h].event \notin DOMAIN last_played)
         => hresp'[h].reason # "cooldown"]_vars

\* C35: a handler holds _last_lock only while it is at the check-and-claim
\* of a play request or at the copy or clear of the session counts; the
\* step that leaves that position frees the lock, whatever the verdict,
\* and changes neither the queue nor the response of another handler; and
\* no handler measures, pops or pushes the queue or writes its response
\* while it holds the lock.
Thm_C35 ==
    /\ [](\A h \in Handlers : last_lock = h => hpc[h] = "locked")
    /\ [][\A h \in Handlers :
            (hpc[h] = "locked" /\ hpc'[h] # "locked")
            => (last_lock' = 0 /\ queue' = queue)]_vars
    /\ [][\A h \in Handlers :
            (QSize(h) \/ GetNowait(h) \/ PutNowait(h) \/ StatusReturn(h)
                \/ Respond(h))
            => last_lock # h]_vars

\* a play rejected at the session limit has let go of the lock while the
\* other handler is about to push its task
Wit_C35 ==
    \E h, g \in Handlers :
        /\ Answered(h)
        /\ hresp[h].reason = "session_limit"
        /\ last_lock = 0
        /\ hpc[g] = "put_nowait"

\* C38 as stated: while a daemon process is serving, the socket file and
\* the PID file it created stay in place whatever the other processes do.
CE_C38 ==
    [][\A d \in Others :
         (dpc[d] = "serving" /\ dpc'[d] = "serving")
         => /\ sock_owner = d => sock_owner' = d
            /\ pid_owner = d => pid_owner' = d]_vars

\* C40: while run() is serving, every task in the queue is in the end
\* handed to playback or evicted by an overflow; and no task is handed to
\* playback twice or after it was evicted.
Thm_C40 ==
    /\ \A id \in 1..MaxTasks :
         (\E i \in DOMAIN queue : queue[i].id = id)
           ~> (id \in Range(played) \/ id \in evicted \/ mpc # "serving")
    /\ [](\A i, j \in DOMAIN played : played[i] = played[j] => i = j)
    /\ [][\A id \in Range(played) :
            id \in Range(played') /\ id \notin evicted'
              /\ (\A i \in DOMAIN queue' : queue'[i].id # id)]_vars

\* the last task of a full run has been handed to playback after an
\* overflow evicted older ones
Wit_C40 ==
    /\ mpc = "serving"
    /\ MaxTasks \in Range(played)
    /\ evicted # {}
    /\ queue = <<>>

\* ---- hooks/claude_code.py: the hooks of settings.json ----------------------
\* A command is the list of words str.split() cuts it into; no command field
\* is the empty list.  A path with a blank in it is cut in two.
BinPaths == {<<"/venv/bin/chuuni">>, <<"/Users/John", "Smith/bin/chuuni">>}

\* Path(word).name
PathName(word) ==
    CASE word = "/venv/bin/chuuni" -> "chuuni"
      [] word = "Smith/bin/chuuni" -> "chuuni"
      [] word = "/Users/John" -> "John"
      [] word = "/usr/bin/say" -> "say"
      [] OTHER -> word

\* _entry(matcher, hook); by records who wrote the entry
HookEntry(by, matcher, cmd) ==
    [by |-> by, matcher |-> matcher, hooks |-> <<cmd>>]

\* generate_hooks_config, for two of its seven events
HookEvents == {"PreToolUse", "Stop"}

generate_hooks_config(bin) ==
    [event \in HookEvents |->
        IF event = "PreToolUse"
        THEN <<HookEntry("chuuni", "Write|Edit|MultiEdit",
                         bin \o <<"play", "coding">>),
               HookEntry("chuuni", "Bash", bin \o <<"play", "bash_run">>)>>
        ELSE <<HookEntry("chuuni", "", bin \o <<"play", "task_done">>)>>]

\* _is_chuuni_entry: all() over the hooks that have a command
IsChuuniEntry(entry) ==
    IF entry.hooks = <<>>
    THEN FALSE
    ELSE \A i \in DOMAIN entry.hooks :
            entry.hooks[i] # <<>>
                => PathName(Head(entry.hooks[i])) = "chuuni"

NotChuuniEntry(entry) == ~IsChuuniEntry(entry)

\* [e for e in existing_hooks[event] if not _is_chuuni_entry(e)]
WithoutChuuni(hooks) ==
    [event \in DOMAIN hooks |-> SelectSeq(hooks[event], NotChuuniEntry)]

\* {k: v for k, v in existing_hooks.items() if v}
DropEmpty(hooks) ==
    [event \in {k \in DOMAIN hooks : hooks[k] # <<>>} |-> hooks[event]]

\* inject_hooks
InjectHooks ==
    /\ Len(st.ops) < MaxPlays
    /\ LET existing == WithoutChuuni(st.hooks)
           new_hooks == generate_hooks_config(st.bin)
           extended == [event \in DOMAIN existing \cup DOMAIN new_hooks |->
                           Get(existing, event, <<>>)
                               \o Get(new_hooks, event, <<>>)]
       IN  st' = [st EXCEPT !.haskey = TRUE,
                            !.hooks = DropEmpty(extended),
                            !.ops = Append(@, "inject")]
    /\ UNCHANGED <<progvars, pq, fc, hk>>

\* remove_hooks
RemoveHooks ==
    /\ Len(st.ops) < MaxPlays
    /\ LET clean == DropEmpty(WithoutChuuni(st.hooks))
       IN  st' = [st EXCEPT !.haskey = (clean # EmptyDict),
                            !.hooks = clean,
                            !.ops = Append(@, "remove")]
    /\ UNCHANGED <<progvars, pq, fc, hk>>

\* the user's own entries: a shell command, a hook without a command field
\* (type "prompt"), and an entry with no hooks
UserCommand == HookEntry("user", "Bash", <<"/usr/bin/say", "done">>)
UserPrompt == HookEntry("user", "", <<>>)
UserBare == [by |-> "user", matcher |-> "Edit", hooks |-> <<>>]
UserLists ==
    {<<>>, <<UserCommand>>, <<UserPrompt>>, <<UserBare>>,
     <<UserCommand, UserPrompt>>, <<UserPrompt, UserCommand>>}

InitHooks ==
    /\ InitProg({0}, {EmptyDict}, {ProbScale})
    /\ pq = PlayerUnused
    /\ fc = FileUnused
    /\ hk = HookOff
    /\ \E bin \in BinPaths, haskey \in BOOLEAN,
          hooks \in Dicts({"Stop", "Notification"}, UserLists) :
           /\ ~haskey => hooks = EmptyDict
           /\ st = SettingsFile(bin, haskey, hooks)

NextHooks ==
    \/ InjectHooks
    \/ RemoveHooks

SpecHooks == InitHooks /\ [][NextHooks]_vars

\* ---- cli.py: the on-hook dispatcher ----------------------------------------
\* An output is the list of its words; "" and a missing key are the empty
\* list.
CRASH_KEYWORDS ==
    {"Traceback", "ModuleNotFoundError", "ImportError", "SyntaxError",
     "NameError"}

\* kw in word, for the words of the model
InWord(kw, word) ==
    \/ kw = word
    \/ kw = "NameError" /\ word = "builtins.NameError:"

\* kw in output
InOutput(kw, output) == \E i \in DOMAIN output : InWord(kw, output[i])

\* any(kw in output for kw in _CRASH_KEYWORDS)
HasCrashKeywordOrError(output) ==
    \E kw \in CRASH_KEYWORDS \cup {"AssertionError"} : InOutput(kw, output)

HasCrashKeyword(output) == \E kw \in CRASH_KEYWORDS : InOutput(kw, output)

\* a or b or 0, on exit codes: None and 0 are false
ExitCodeOf(data) ==
    IF data.nested_exit.present /\ data.nested_exit.v # 0
    THEN data.nested_exit.v
    ELSE IF data.flat_exit.present /\ data.flat_exit.v # 0
         THEN data.flat_exit.v
         ELSE 0

\* a or b or "", on outputs: "" is false
OutputOf(data) ==
    IF data.nested_output # <<>> THEN data.nested_output
                                 ELSE data.flat_output

\* _dispatch(hook_ctx, data)
Dispatch(hook_ctx, data) ==
    IF hook_ctx = "post-bash"
    THEN IF ExitCodeOf(data) = 0
         THEN "test_pass"
         ELSE IF HasCrashKeyword(OutputOf(data)) THEN "error"
                                                 ELSE "test_fail"
    ELSE "none"

\* raw = sys.stdin.read(); data = json.loads(raw) if raw.strip() else {},
\* {} when json.loads raises
OnHookRead ==
    /\ hk.pc = "read"
    /\ hk' = [hk EXCEPT !.pc = "dispatch",
                        !.data = IF hk.raw = "object" THEN hk.stdin
                                                      ELSE EmptyPayload]
    /\ UNCHANGED <<progvars, pq, fc, st>>

\* event = _dispatch(hook_ctx, data)
OnHookDispatch ==
    /\ hk.pc = "dispatch"
    /\ hk' = [hk EXCEPT !.pc = "done", !.event = Dispatch(hk.ctx, hk.data)]
    /\ UNCHANGED <<progvars, pq, fc, st>>

HookContexts == {"post-bash", "pre-bash", "stop"}
ExitCodes == {Absent, Present(0), Present(1), Present(2)}
Outputs ==
    {<<>>, <<"2", "passed">>, <<"AssertionError", "FAILED">>,
     <<"Traceback", "ZeroDivisionError">>, <<"ModuleNotFoundError">>,
     <<"ImportError">>, <<"SyntaxError">>, <<"builtins.NameError:">>}

InitOnHook ==
    /\ InitProg({0}, {EmptyDict}, {ProbScale})
    /\ pq = PlayerUnused
    /\ fc = FileUnused
    /\ st = SettingsUnused
    /\ \E ctx \in HookContexts, raw \in {"object", "blank", "invalid"},
          ne, fe \in ExitCodes, no, fo \in Outputs :
           /\ raw # "object" => ne = Absent /\ fe = Absent /\ no = <<>>
                                  /\ fo = <<>>
           /\ hk = HookStart(ctx, raw,
                             [nested_exit |-> ne, flat_exit |-> fe,
                              nested_output |-> no, flat_output |-> fo])

NextOnHook ==
    \/ OnHookRead
    \/ OnHookDispatch

SpecOnHook == InitOnHook /\ [][NextOnHook]_vars

\* ---- player.py: the file-backed cooldown ------------------------------------
\* with lock: the FileLock is acquired only while nobody holds it
FileLockFreeAlways(holder) == TRUE

FileLockFree(holder) == holder = 0

\* the result of a finished call: what it returned, the time it read, and
\* whether it ran under the lock
CallDone(p, ret, locked) ==
    [proc |-> p, event |-> fc.call[p].event, now |-> fc.call[p].now,
     ret |-> ret, locked |-> locked]

\* _check_and_claim_cooldown(event_value, cooldown) is called in process p
ClaimCall(p, e) ==
    /\ fc.call[p].pc = "off"
    /\ Len(fc.calls) + Cardinality({q \in Procs : fc.call[q].pc # "off"})
         < MaxPlays
    /\ fc' = [fc EXCEPT !.call[p] = [NoCall EXCEPT !.pc = "acquire",
                                                   !.event = e]]
    /\ UNCHANGED <<progvars, pq, st, hk>>

\* with lock: entered
ClaimAcquire(p) ==
    /\ fc.call[p].pc = "acquire"
    /\ FileLockFree(fc.lock)
    /\ fc' = [fc EXCEPT !.lock = p, !.call[p].pc = "read"]
    /\ UNCHANGED <<progvars, pq, st, hk>>

\* the lock is not obtained within 1 s: Timeout is caught, the call falls
\* open
ClaimTimeout(p) ==
    /\ fc.call[p].pc = "acquire"
    /\ ~FileLockFree(fc.lock)
    /\ fc' = [fc EXCEPT !.call[p] = NoCall,
                        !.calls = Append(@, CallDone(p, TRUE, FALSE))]
    /\ UNCHANGED <<progvars, pq, st, hk>>

\* data = json.loads(COOLDOWN_FILE.read_text()), {} when the file is missing
\* or does not parse
ClaimRead(p) ==
    /\ fc.call[p].pc = "read"
    /\ fc' = [fc EXCEPT !.call[p].pc = "check",
                        !.call[p].data = IF fc.file.readable
                                         THEN fc.file.data ELSE EmptyDict]
    /\ UNCHANGED <<progvars, pq, st, hk>>

\* now = time.time(); last = data.get(event_value, 0.0);
\* if now - last < cooldown: return False
ClaimCheck(p) ==
    /\ fc.call[p].pc = "check"
    /\ LET c == fc.call[p]
           last == Get(c.data, c.event, 0)
       IN  IF fc.clock - last < fc.cooldown
           THEN fc' = [fc EXCEPT
                         !.call[p] = NoCall,
                         !.lock = IF @ = p THEN 0 ELSE @,
                         !.calls = Append(@, [proc |-> p, event |-> c.event,
                                              now |-> fc.clock, ret |-> FALSE,
                                              locked |-> TRUE])]
           ELSE fc' = [fc EXCEPT !.call[p].pc = "write",
                                 !.call[p].now = fc.clock]
    /\ UNCHANGED <<progvars, pq, st, hk>>

\* data[event_value] = now; COOLDOWN_FILE.write_text(json.dumps(data));
\* return True
ClaimWrite(p) ==
    /\ fc.call[p].pc = "write"
    /\ LET c == fc.call[p]
       IN  fc' = [fc EXCEPT
                    !.file = [readable |-> TRUE,
                              data |-> Put(c.data, c.event, c.now)],
                    !.call[p] = NoCall,
                    !.lock = IF @ = p THEN 0 ELSE @,
                    !.calls = Append(@, CallDone(p, TRUE, TRUE))]
    /\ UNCHANGED <<progvars, pq, st, hk>>

\* wall-clock time passes
FileTick ==
    /\ fc.clock < Epoch + MaxTime
    /\ fc' = [fc EXCEPT !.clock = @ + 1]
    /\ UNCHANGED <<progvars, pq, st, hk>>

InitFile ==
    /\ InitProg({0}, {EmptyDict}, {ProbScale})
    /\ pq = PlayerUnused
    /\ st = SettingsUnused
    /\ hk = HookOff
    /\ \E cd \in 0..MaxCooldown, readable \in BOOLEAN :
           fc = FileIdle(cd, readable)

NextFile ==
    \/ \E p \in Procs, e \in Events : ClaimCall(p, e)
    \/ \E p \in Procs : ClaimAcquire(p)
    \/ \E p \in Procs : ClaimTimeout(p)
    \/ \E p \in Procs : ClaimRead(p)
    \/ \E p \in Procs : ClaimCheck(p)
    \/ \E p \in Procs : ClaimWrite(p)
    \/ FileTick

SpecFile == InitFile /\ [][NextFile]_vars

\* the finished calls for event e that ran under the lock and returned True
Claimed(e) ==
    {i \in DOMAIN fc.calls : /\ fc.calls[i].event = e
                             /\ fc.calls[i].locked
                             /\ fc.calls[i].ret}

\* C33 as stated: inject_hooks is idempotent: run right after an inject_hooks
\* on the same settings file it leaves the hooks as they are, with no chuuni
\* entry added a second time.
CE_C33 ==
    [][(InjectHooks /\ st.ops # <<>> /\ st.ops[Len(st.ops)] = "inject")
          => st'.hooks = st.hooks]_vars

IsUserEntry(entry) == entry.by = "user"

\* the entries of an event that chuuni did not inject, in order
UserEntries(hooks, event) == SelectSeq(Get(hooks, event, <<>>), IsUserEntry)

\* C34 as stated: after any sequence of inject_hooks and remove_hooks every
\* entry that chuuni did not inject, one whose hooks have no command field
\* included, is still there, unchanged and in its place; and remove_hooks
\* leaves exactly the user's original hooks.
CE_C34 ==
    /\ [](\A event \in DOMAIN st.orig \cup DOMAIN st.hooks :
             UserEntries(st.hooks, event) = UserEntries(st.orig, event))
    /\ [][RemoveHooks => DropEmpty(st'.hooks) = DropEmpty(st.orig)]_vars

\* the exit codes a payload carries, and the outputs it carries
ExitsIn(data) ==
    {f.v : f \in {g \in {data.nested_exit, data.flat_exit} : g.present}}

OutputsIn(data) == {data.nested_output, data.flat_output} \ {<<>>}

\* the crash keywords as the claim lists them
NamesCrash(output) ==
    \E i \in DOMAIN output :
        \/ output[i] \in {"Traceback", "ModuleNotFoundError", "ImportError",
                          "SyntaxError", "NameError"}
        \/ output[i] = "builtins.NameError:"

\* C37: once on-hook has dispatched, a context other than post-bash has no
\* event; for post-bash the event is one of test_pass, error, test_fail:
\* test_pass when the payload carries no exit code or only 0, whatever the
\* output; with a non-zero exit code and no 0, error when the output names
\* a crash keyword and test_fail when it names none.
Thm_C37 ==
    hk.pc = "done" =>
        LET payload == IF hk.raw = "object" THEN hk.stdin ELSE EmptyPayload
            exits == ExitsIn(payload)
            outs == OutputsIn(payload)
        IN  /\ hk.ctx # "post-bash" => hk.event = "none"
            /\ hk.ctx = "post-bash" =>
                   /\ hk.event \in {"test_pass", "error", "test_fail"}
                   /\ exits \subseteq {0} => hk.event = "test_pass"
                   /\ (exits # {} /\ 0 \notin exits) =>
                          /\ hk.event # "test_pass"
                          /\ (outs # {} /\ \A o \in outs : NamesCrash(o))
                                 => hk.event = "error"
                          /\ (\A o \in outs : ~NamesCrash(o))
                                 => hk.event = "test_fail"

\* a failed command whose output is an assertion failure was dispatched as
\* test_fail
Wit_C37 ==
    /\ hk.pc = "done"
    /\ hk.ctx = "post-bash"
    /\ hk.data.nested_exit = Present(1)
    /\ hk.data.nested_output = <<"AssertionError", "FAILED">>
    /\ hk.event = "test_fail"

Thm_C32 ==
    /\ [](Len(pq.queue) <= PLAYER_QUEUE_MAX)
    /\ [][(EnqueueGetNowait /\ pq.queue # <<>>)
            => /\ pq'.dropped = pq.dropped \cup {Head(pq.queue)}
               /\ \A i \in DOMAIN pq.queue : Head(pq.queue) <= pq.queue[i]
               /\ pq'.queue = Tail(pq.queue)]_vars
    /\ [][EnqueuePut
            => /\ pq'.queue[Len(pq'.queue)] = pq'.next
               /\ pq'.next \notin pq'.dropped
               /\ \A i \in DOMAIN pq.queue : pq'.queue[i] = pq.queue[i]]_vars

\* the queue is full again after an overflow dropped the oldest task
Wit_C32 ==
    /\ pq.epc = "idle"
    /\ Len(pq.queue) = PLAYER_QUEUE_MAX
    /\ pq.dropped # {}
    /\ pq.queue[Len(pq.queue)] = pq.next
    /\ \A id \in pq.dropped : id < pq.queue[1]

QueueIds == {queue[i].id : i \in DOMAIN queue}

\* C6 as stated: the playback queue never holds more than 8 pending tasks.
CE_C6 == Len(queue) <= QUEUE_MAX

\* C7 as stated: an enqueue that finds 8 tasks pending discards exactly one
\* task, the oldest, and appends the new task behind the remaining 7; an
\* enqueue that finds fewer than 8 discards nothing.  So no task is
\* discarded while fewer than 8 are pending, one enqueue discards at most
\* one task, and after a discard the new task becomes the 8th.
CE_C7 ==
    [][\A h \in Handlers :
         /\ (GetNowait(h) /\ queue' # queue)
            => (Len(queue) = QUEUE_MAX /\ queue' = Tail(queue))
         /\ PutNowait(h)
            => /\ hdrops[h] <= 1
               /\ queue' = Append(queue, Task(next_id + 1, hmsg[h]))
               /\ hdrops[h] = 1 => Len(queue') = QUEUE_MAX
               /\ Len(queue') <= QUEUE_MAX]_vars

\* C8: at most one player child process is alive at any time, and the
\* worker takes the next task only when no player is alive.
Thm_C8 ==
    /\ [](players <= 1)
    /\ [][(\E o \in Outcomes : WorkerPlay(o)) => players = 0]_vars

Wit_C8 == players = 1 /\ Len(played) >= 2 /\ Len(queue) >= 2

\* C9: tasks are played in the order they were enqueued and none twice
\* (ids number the tasks in enqueue order); a task that is no longer queued
\* and was not played was removed by the drop-oldest loop, and no removed
\* task is played.
Thm_C9 ==
    /\ \A i, j \in DOMAIN played : i < j => played[i] < played[j]
    /\ \A id \in 1..next_id :
         (id \notin Range(played) /\ id \notin QueueIds) => id \in evicted
    /\ evicted \cap Range(played) = {}
    /\ evicted \cap QueueIds = {}

\* a task was skipped by overflow between two played tasks
Wit_C9 ==
    \E i \in DOMAIN played, x \in evicted :
        i > 1 /\ played[i - 1] < x /\ x < played[i]

====
